---------------------------- MODULE Spec2Model ----------------------------
(***************************************************************************)
(* A model of the comment-intelligence and generative-content pipeline of  *)
(* TBZ Blogs: core/sentiment_service.py (sentiment and importance of       *)
(* comments), core/ai_service.py (the Gemini REST client and the JSON      *)
(* extraction of its four generation operations), the AI endpoints of      *)
(* blog/views.py, its like / dislike endpoint, its post and comment views, *)
(* and the registration of accounts.                                       *)
(*                                                                         *)
(* A text is a sequence of one-character strings, so that Python's         *)
(* substring tests, split() and strip() are computed character by          *)
(* character.  A polarity is an integer number of 1/10000ths.              *)
(***************************************************************************)
EXTENDS Integers, Sequences, FiniteSets, TLC

VARIABLES
  pc,                 \* "idle", or "returned" while a caller holds a result
  sentiment_call,     \* the operation of the sentiment service that returned
  comment,            \* the text handed to the sentiment service
  blob,               \* what TextBlob(text).sentiment does for that text
  importance_result,  \* what classify_comment_importance returned or raised
  thresholds,         \* SentimentAnalyzer's positive_threshold and negative_threshold
  sentiment_result,   \* what analyze_sentiment returned or raised
  comments,           \* the collection handed to get_comment_summary
  textblob,           \* what TextBlob(text).sentiment does for each of its texts
  summary,            \* what get_comment_summary returned or raised
  settings,           \* AI_ENABLED, GEMINI_API_KEY and whether requests imports
  enabled,            \* AIService.enabled: the truth value __init__ stored
  post_count,         \* the number of requests.post calls made so far
  call,               \* the generation call the caller holds the result of
  outcome,            \* how the generation operation of that call ended
  response,           \* what the view of that call answered
  posts,              \* the BlogPost rows, by slug
  interactions,       \* the PostInteraction rows
  blog_call,          \* the last blog_interact request, and the rows it found
  blog_comments,      \* the Comment rows
  comment_seq,        \* the last id the database gave to a Comment row
  view_call,          \* the last request to a post or comment view, and the rows before it
  in_flight,          \* the blog_interact requests being handled, by user
  users,              \* the auth User rows
  profiles,           \* the UserProfile rows: the ids of the users that have one
  account_call        \* the last registration or user creation, and the rows before it

sentiment_vars == <<sentiment_call, comment, blob, importance_result, thresholds,
                    sentiment_result, comments, textblob, summary>>
ai_vars == <<settings, enabled, post_count, call, outcome, response>>
blog_vars == <<posts, interactions, blog_call, blog_comments, comment_seq, view_call,
               in_flight>>
account_vars == <<users, profiles, account_call>>
vars == <<pc, sentiment_call, comment, blob, importance_result, thresholds,
          sentiment_result, comments, textblob, summary,
          settings, enabled, post_count, call, outcome, response,
          posts, interactions, blog_call, blog_comments, comment_seq, view_call,
          in_flight, users, profiles, account_call>>

-----------------------------------------------------------------------------
(* Python string primitives                                                *)

UpperCase == <<"A","B","C","D","E","F","G","H","I","J","K","L","M",
               "N","O","P","Q","R","S","T","U","V","W","X","Y","Z">>
LowerCase == <<"a","b","c","d","e","f","g","h","i","j","k","l","m",
               "n","o","p","q","r","s","t","u","v","w","x","y","z">>

\* str.lower() on one character
LowerChar(c) ==
  IF \E i \in 1..Len(UpperCase) : UpperCase[i] = c
    THEN LowerCase[CHOOSE i \in 1..Len(UpperCase) : UpperCase[i] = c]
    ELSE c

\* str.lower()
Lower(s) == [i \in 1..Len(s) |-> LowerChar(s[i])]

\* sub in s
Contains(s, sub) ==
  \/ Len(sub) = 0
  \/ \E i \in 1..(Len(s) - Len(sub) + 1) :
       /\ s[i] = sub[1]
       /\ SubSeq(s, i, i + Len(sub) - 1) = sub

\* the characters str.split() and str.strip() treat as whitespace
PyWhitespace == {" ", "\n", "\t", "\r", "\f"}

\* len(s.split()): the number of maximal runs of non-whitespace characters
SplitCount(s) ==
  Cardinality({i \in 1..Len(s) :
                 /\ s[i] \notin PyWhitespace
                 /\ (i = 1 \/ s[i-1] \in PyWhitespace)})

\* Python's bool used as an int
BoolInt(b) == IF b THEN 1 ELSE 0

-----------------------------------------------------------------------------
(* core/sentiment_service.py                                               *)

high_importance_keywords ==
  << <<"i","m","p","r","o","v","e">>,
     <<"i","m","p","r","o","v","e","m","e","n","t">>,
     <<"s","u","g","g","e","s","t">>,
     <<"s","u","g","g","e","s","t","i","o","n">>,
     <<"f","e","e","d","b","a","c","k">>,
     <<"c","o","n","s","i","d","e","r">>,
     <<"c","o","u","l","d"," ","b","e","t","t","e","r">>,
     <<"i","s","s","u","e">>,
     <<"p","r","o","b","l","e","m">>,
     <<"b","u","g">>,
     <<"f","e","a","t","u","r","e"," ","r","e","q","u","e","s","t">>,
     <<"e","n","h","a","n","c","e","m","e","n","t">>,
     <<"d","e","t","a","i","l","e","d">>,
     <<"c","o","m","p","r","e","h","e","n","s","i","v","e">>,
     <<"r","e","s","e","a","r","c","h">>,
     <<"a","n","a","l","y","s","i","s">>,
     <<"i","n","s","i","g","h","t">>,
     <<"p","e","r","s","p","e","c","t","i","v","e">>,
     <<"h","o","w","e","v","e","r">>,
     <<"m","o","r","e","o","v","e","r">>,
     <<"f","u","r","t","h","e","r","m","o","r","e">>,
     <<"a","l","t","e","r","n","a","t","i","v","e","l","y">>,
     <<"i","n","s","t","e","a","d">>,
     <<"b","e","t","t","e","r">>,
     <<"s","h","o","u","l","d">>,
     <<"c","o","u","l","d">>,
     <<"w","o","u","l","d"," ","b","e"," ","b","e","t","t","e","r">>,
     <<"v","a","r","i","e","t","y">>,
     <<"d","i","f","f","e","r","e","n","t">> >>

medium_importance_keywords ==
  << <<"g","r","e","a","t">>,
     <<"g","o","o","d">>,
     <<"n","i","c","e">>,
     <<"l","o","v","e">>,
     <<"l","i","k","e">>,
     <<"a","w","e","s","o","m","e">>,
     <<"i","n","t","e","r","e","s","t","i","n","g">>,
     <<"u","s","e","f","u","l">>,
     <<"h","e","l","p","f","u","l">>,
     <<"a","p","p","r","e","c","i","a","t","e">>,
     <<"t","h","a","n","k","s">>,
     <<"w","a","y">>,
     <<"b","y"," ","t","h","e"," ","w","a","y">>,
     <<"t","h","o","u","g","h">>,
     <<"b","u","t">>,
     <<"y","e","t">>,
     <<"t","h","o","u","g","h">> >>

low_importance_keywords ==
  << <<"o","k">>,
     <<"f","i","n","e">>,
     <<"h","m","m">>,
     <<"l","o","l">>,
     <<"y","e","s">>,
     <<"n","o">>,
     <<"c","o","o","l">>,
     <<"+","1">>,
     <<"a","g","r","e","e","d">>,
     <<"s","a","m","e">>,
     <<"t","h","i","s">>,
     <<"t","h","a","t">>,
     <<"i","t"," ","i","s">> >>

\* a variant with a constructive word that is no HIGH keyword
ConstructionWordsWithThough ==
  << <<"c","o","u","l","d">>,
     <<"s","h","o","u","l","d">>,
     <<"t","h","o","u","g","h">> >>

construction_words ==
  << <<"c","o","u","l","d">>,
     <<"s","h","o","u","l","d">>,
     <<"b","e","t","t","e","r">>,
     <<"i","m","p","r","o","v","e">>,
     <<"i","n","s","t","e","a","d">>,
     <<"v","a","r","i","e","t","y">> >>

\* the polarity below which classify_comment_importance calls a text negative
\* (-0.1, in 1/10000ths)
NegativeCut == -1000

\* a variant that counts each distinct keyword once
KeywordHitsDistinct(keywords, text_lower) ==
  Cardinality({keywords[i] : i \in {j \in 1..Len(keywords) :
                                      Contains(text_lower, keywords[j])}})

\* sum(1 for kw in keywords if kw in text_lower), entry by entry
RECURSIVE KeywordHits(_, _)
KeywordHits(keywords, text_lower) ==
  IF keywords = <<>> THEN 0
  ELSE BoolInt(Contains(text_lower, Head(keywords)))
         + KeywordHits(Tail(keywords), text_lower)

\* any(word in text_lower for word in [...])
HasConstructionWords(text_lower) ==
  \E i \in 1..Len(construction_words) : Contains(text_lower, construction_words[i])

\* the importance score, before the constructive-feedback boost
BaseScore(high_count, medium_count, has_questions, has_emphasis) ==
  (high_count * 3) + (medium_count * 1)
    + (BoolInt(has_questions) * 1) + (BoolInt(has_emphasis) * 1)

\* a variant that tests the MEDIUM rule before the HIGH rule
ImportanceTierMediumFirst(high_count, medium_count, has_questions, has_construction_words, is_negative, word_count, score) ==
  IF (medium_count >= 1 /\ (has_questions \/ has_construction_words)) \/ score >= 3
    THEN [importance |-> "MEDIUM",
          reason |-> "Contains suggestions or observations for improvement"]
  ELSE IF high_count >= 1
            \/ (is_negative /\ has_construction_words /\ word_count >= 15)
    THEN [importance |-> "HIGH",
          reason |-> "Contains constructive feedback or detailed insights"]
  ELSE [importance |-> "LOW", reason |-> "Generic or minimal engagement"]

\* the if / elif / else that picks the tier
ImportanceTier(high_count, medium_count, has_questions, has_construction_words, is_negative, word_count, score) ==
  IF high_count >= 1 \/ (is_negative /\ has_construction_words /\ word_count >= 15)
    THEN [importance |-> "HIGH",
          reason |-> "Contains constructive feedback or detailed insights"]
  ELSE IF (medium_count >= 1 /\ (has_questions \/ has_construction_words)) \/ score >= 3
    THEN [importance |-> "MEDIUM",
          reason |-> "Contains suggestions or observations for improvement"]
  ELSE [importance |-> "LOW", reason |-> "Generic or minimal engagement"]

NoImportance ==
  [raised |-> FALSE, importance |-> "", reason |-> "", score |-> 0,
   word_count |-> 0, has_questions |-> FALSE, has_emphasis |-> FALSE]

\* SentimentAnalyzer.classify_comment_importance(text); b is what TextBlob does
\* for this text.  TextBlob is called outside any try block, so its failure
\* leaves the function by an exception.
ClassifyCommentImportance(text, b) ==
  LET text_lower == Lower(text)
      high_count == KeywordHits(high_importance_keywords, text_lower)
      medium_count == KeywordHits(medium_importance_keywords, text_lower)
      low_count == KeywordHits(low_importance_keywords, text_lower)
      word_count == SplitCount(text)
      has_questions == Contains(text, <<"?">>)
      has_emphasis == Contains(text, <<"!">>)
      is_negative == b.polarity < NegativeCut
      has_construction_words == HasConstructionWords(text_lower)
      base == BaseScore(high_count, medium_count, has_questions, has_emphasis)
      score == IF is_negative /\ has_construction_words THEN base + 4 ELSE base
      tier == ImportanceTier(high_count, medium_count, has_questions,
                             has_construction_words, is_negative, word_count, score)
  IN IF b.fails
       THEN [NoImportance EXCEPT !.raised = TRUE]
       ELSE [raised |-> FALSE, importance |-> tier.importance, reason |-> tier.reason,
             score |-> score, word_count |-> word_count,
             has_questions |-> has_questions, has_emphasis |-> has_emphasis]

-----------------------------------------------------------------------------
(* core/sentiment_service.py: analyze_sentiment and get_comment_summary    *)

\* SentimentAnalyzer.__init__: 0.1 and -0.1, in 1/10000ths
InitialThresholds == [positive_threshold |-> 1000, negative_threshold |-> -1000]

Abs(n) == IF n < 0 THEN 0 - n ELSE n

\* the integer nearest to n / d for d > 0, the even one at a tie: round()
RoundDiv(n, d) ==
  LET q == n \div d
      r == n % d
  IN IF 2 * r < d THEN q
     ELSE IF 2 * r > d THEN q + 1
     ELSE IF q % 2 = 0 THEN q ELSE q + 1

\* round(x, 3) of a value in 1/10000ths
Round3(x) == 10 * RoundDiv(x, 10)

\* round((count / total) * 100, 1), in tenths of a percent, truncated
PercentageTruncated(count, total) == (1000 * count) \div total

\* round((count / total) * 100, 1), in tenths of a percent
Percentage(count, total) == RoundDiv(1000 * count, total)

RECURSIVE Pow2(_)
Pow2(n) == IF n = 0 THEN 1 ELSE 2 * Pow2(n - 1)

\* The float that round(_, 1) returns for k tenths is the double nearest to
\* k / 10.  DoubleError(k) is that double minus k / 10, in units of 2^-56 / 10:
\* with e the binary exponent of k / 10, the double is m * 2^(e - 52) for the
\* integer m nearest to k * 2^(52 - e) / 10, and the remainder of that division
\* follows from the last digit of k and of the power of two.
DoubleError(k) ==
  IF k = 0 THEN 0
  ELSE LET e == CHOOSE x \in -4..6 :
                  16 * k >= 10 * Pow2(x + 4) /\ 16 * k < 10 * Pow2(x + 5)
           last == CASE (52 - e) % 4 = 0 -> 6
                     [] (52 - e) % 4 = 1 -> 2
                     [] (52 - e) % 4 = 2 -> 4
                     [] (52 - e) % 4 = 3 -> 8
           r == ((k % 10) * last) % 10
       IN (IF r < 5 THEN 0 - r ELSE 10 - r) * Pow2(e + 4)

NoSentiment ==
  [raised |-> FALSE, keys |-> {}, sentiment |-> "", polarity |-> 0,
   subjectivity |-> 0, confidence |-> 0]

\* the dict of the except branch: it has an 'error' key and no 'confidence'
FallbackSentiment ==
  [raised |-> FALSE, keys |-> {"sentiment", "polarity", "subjectivity", "error"},
   sentiment |-> "neutral", polarity |-> 0, subjectivity |-> 0, confidence |-> 0]

\* a variant whose thresholds belong to the charged labels
SentimentLabelInclusive(polarity, th) ==
  IF polarity >= th.positive_threshold THEN "positive"
  ELSE IF polarity <= th.negative_threshold THEN "negative"
  ELSE "neutral"

\* the if / elif / else on the unrounded polarity
SentimentLabel(polarity, th) ==
  IF polarity > th.positive_threshold THEN "positive"
  ELSE IF polarity < th.negative_threshold THEN "negative"
  ELSE "neutral"

\* a variant without the try / except
AnalyzeSentimentUnguarded(text, b, th) ==
  IF b.fails
    THEN [NoSentiment EXCEPT !.raised = TRUE]
    ELSE [raised |-> FALSE,
          keys |-> {"sentiment", "polarity", "subjectivity", "confidence"},
          sentiment |-> SentimentLabel(b.polarity, th),
          polarity |-> Round3(b.polarity),
          subjectivity |-> Round3(b.subjectivity),
          confidence |-> Round3(Abs(b.polarity))]

\* SentimentAnalyzer.analyze_sentiment(text); b is what TextBlob does for this
\* text and th the analyzer's thresholds.  The keys are those of the dict.
AnalyzeSentiment(text, b, th) ==
  IF b.fails
    THEN FallbackSentiment
    ELSE [raised |-> FALSE,
          keys |-> {"sentiment", "polarity", "subjectivity", "confidence"},
          sentiment |-> SentimentLabel(b.polarity, th),
          polarity |-> Round3(b.polarity),
          subjectivity |-> Round3(b.subjectivity),
          confidence |-> Round3(Abs(b.polarity))]

RECURSIVE Sum(_)
Sum(numbers) == IF numbers = <<>> THEN 0 ELSE Head(numbers) + Sum(Tail(numbers))

NoSummary ==
  [raised |-> FALSE, keys |-> {}, total_comments |-> 0,
   sentiment_distribution |-> <<>>,
   positive_count |-> 0, negative_count |-> 0, neutral_count |-> 0,
   positive_percentage |-> 0, negative_percentage |-> 0, neutral_percentage |-> 0,
   average_polarity |-> 0, average_subjectivity |-> 0,
   high_importance_count |-> 0, medium_importance_count |-> 0,
   low_importance_count |-> 0, high_importance_percentage |-> 0]

\* lines 157-166: the dict returned for an empty collection
EmptySummary ==
  [NoSummary EXCEPT
     !.keys = {"total_comments", "sentiment_distribution", "average_polarity",
               "average_subjectivity", "high_importance_count",
               "medium_importance_count", "low_importance_count"}]

\* the locals of the loop before its first iteration (lines 168-171)
LoopStart ==
  [raised |-> FALSE,
   sentiments |-> [positive |-> 0, negative |-> 0, neutral |-> 0],
   importance_counts |-> [HIGH |-> 0, MEDIUM |-> 0, LOW |-> 0],
   polarities |-> <<>>, subjectivities |-> <<>>]

\* a variant of the loop that counts a comment's tier only when the comment
\* before it was not negative
RECURSIVE SummaryLoopCarrying(_, _, _, _)
SummaryLoopCarrying(cs, tb, th, acc) ==
  IF cs = <<>> \/ acc.raised THEN acc
  ELSE LET c == Head(cs)
           sr == AnalyzeSentiment(c, tb[c], th)
           ir == ClassifyCommentImportance(c, tb[c])
           carried == acc.polarities # <<>>
                        /\ acc.polarities[Len(acc.polarities)] < 0
       IN IF ir.raised THEN [acc EXCEPT !.raised = TRUE]
          ELSE SummaryLoopCarrying(Tail(cs), tb, th,
                 [raised |-> FALSE,
                  sentiments |-> [acc.sentiments EXCEPT ![sr.sentiment] = @ + 1],
                  importance_counts |->
                    IF carried THEN acc.importance_counts
                    ELSE [acc.importance_counts EXCEPT ![ir.importance] = @ + 1],
                  polarities |-> Append(acc.polarities, sr.polarity),
                  subjectivities |-> Append(acc.subjectivities, sr.subjectivity)])

\* lines 173-182: the loop over the comments; tb[c] is what TextBlob does for
\* the text c.  An exception of classify_comment_importance leaves the loop.
RECURSIVE SummaryLoop(_, _, _, _)
SummaryLoop(cs, tb, th, acc) ==
  IF cs = <<>> \/ acc.raised THEN acc
  ELSE LET c == Head(cs)
           sr == AnalyzeSentiment(c, tb[c], th)
           ir == ClassifyCommentImportance(c, tb[c])
       IN IF ir.raised THEN [acc EXCEPT !.raised = TRUE]
          ELSE SummaryLoop(Tail(cs), tb, th,
                 [raised |-> FALSE,
                  sentiments |-> [acc.sentiments EXCEPT ![sr.sentiment] = @ + 1],
                  importance_counts |->
                    [acc.importance_counts EXCEPT ![ir.importance] = @ + 1],
                  polarities |-> Append(acc.polarities, sr.polarity),
                  subjectivities |-> Append(acc.subjectivities, sr.subjectivity)])

SummaryKeys ==
  {"total_comments", "sentiment_distribution", "positive_count", "negative_count",
   "neutral_count", "positive_percentage", "negative_percentage",
   "neutral_percentage", "sentiment_percentages", "average_polarity",
   "average_subjectivity", "high_importance_count", "medium_importance_count",
   "low_importance_count", "high_importance_percentage"}

\* a variant that takes the number of distinct texts for the total
GetCommentSummaryDistinct(cs, tb, th) ==
  IF cs = <<>> THEN EmptySummary
  ELSE LET done == SummaryLoop(cs, tb, th, LoopStart)
           total == Cardinality({cs[i] : i \in 1..Len(cs)})
       IN IF done.raised THEN [NoSummary EXCEPT !.raised = TRUE]
          ELSE [raised |-> FALSE, keys |-> SummaryKeys, total_comments |-> total,
                sentiment_distribution |-> done.sentiments,
                positive_count |-> done.sentiments.positive,
                negative_count |-> done.sentiments.negative,
                neutral_count |-> done.sentiments.neutral,
                positive_percentage |-> Percentage(done.sentiments.positive, total),
                negative_percentage |-> Percentage(done.sentiments.negative, total),
                neutral_percentage |-> Percentage(done.sentiments.neutral, total),
                average_polarity |->
                  10 * RoundDiv(Sum(done.polarities), 10 * Len(done.polarities)),
                average_subjectivity |->
                  10 * RoundDiv(Sum(done.subjectivities), 10 * Len(done.subjectivities)),
                high_importance_count |-> done.importance_counts.HIGH,
                medium_importance_count |-> done.importance_counts.MEDIUM,
                low_importance_count |-> done.importance_counts.LOW,
                high_importance_percentage |->
                  Percentage(done.importance_counts.HIGH, total)]

\* SentimentAnalyzer.get_comment_summary(comments).  Percentages are in tenths
\* of a percent and averages in 1/10000ths.
GetCommentSummary(cs, tb, th) ==
  IF cs = <<>> THEN EmptySummary
  ELSE LET done == SummaryLoop(cs, tb, th, LoopStart)
           total == Len(cs)
       IN IF done.raised THEN [NoSummary EXCEPT !.raised = TRUE]
          ELSE [raised |-> FALSE, keys |-> SummaryKeys, total_comments |-> total,
                sentiment_distribution |-> done.sentiments,
                positive_count |-> done.sentiments.positive,
                negative_count |-> done.sentiments.negative,
                neutral_count |-> done.sentiments.neutral,
                positive_percentage |-> Percentage(done.sentiments.positive, total),
                negative_percentage |-> Percentage(done.sentiments.negative, total),
                neutral_percentage |-> Percentage(done.sentiments.neutral, total),
                average_polarity |->
                  10 * RoundDiv(Sum(done.polarities), 10 * Len(done.polarities)),
                average_subjectivity |->
                  10 * RoundDiv(Sum(done.subjectivities), 10 * Len(done.subjectivities)),
                high_importance_count |-> done.importance_counts.HIGH,
                medium_importance_count |-> done.importance_counts.MEDIUM,
                low_importance_count |-> done.importance_counts.LOW,
                high_importance_percentage |->
                  Percentage(done.importance_counts.HIGH, total)]

-----------------------------------------------------------------------------
(* The comments and sentiment-model outcomes explored                      *)

MaxCommentPieces == 2

\* fourteen one-letter words, to reach the 15-word length the HIGH rule reads
Filler14 == <<" ","a"," ","b"," ","c"," ","d"," ","e"," ","f"," ","g",
              " ","a"," ","b"," ","c"," ","d"," ","e"," ","f"," ","g"," ">>

CommentPieces ==
  { <<"c","o","u","l","d">>,
    <<"i","m","p","r","o","v","e","m","e","n","t">>,
    <<"G","r","e","a","t">>,
    <<"t","h","o","u","g","h">>,
    <<"l","o","l">>,
    <<"?">>, <<"!">>, <<" ">>,
    Filler14 }

RECURSIVE Flatten(_)
Flatten(pieces) ==
  IF pieces = <<>> THEN <<>> ELSE Head(pieces) \o Flatten(Tail(pieces))

TextsOf(pieces, n) ==
  { Flatten(ps) : ps \in UNION { [1..k -> pieces] : k \in 0..n } }

CommentTexts == TextsOf(CommentPieces, MaxCommentPieces)

\* polarities around the two thresholds and at the ends of [-1, 1]
Polarities == {-10000, -1004, -1000, 0, 1000, 1004, 10000}

BlobOutcomes ==
  { [fails |-> FALSE, polarity |-> p] : p \in Polarities }
    \cup { [fails |-> TRUE, polarity |-> 0] }

NoBlob == [fails |-> FALSE, polarity |-> 0]

\* subjectivities at the ends of [0, 1] and one that round(_, 3) changes
Subjectivities == {0, 5004, 10000}

\* what TextBlob(text).sentiment does for a text handed to analyze_sentiment
SentimentOutcomes ==
  { [fails |-> FALSE, polarity |-> p, subjectivity |-> u] :
      p \in Polarities, u \in Subjectivities }
    \cup { [fails |-> TRUE, polarity |-> 0, subjectivity |-> 0] }

MaxComments == 3

\* the texts of a collection: the empty string, a HIGH, a MEDIUM and a LOW one
SummaryTexts ==
  { <<>>, <<"c","o","u","l","d">>, <<"G","r","e","a","t","?">> }

\* what TextBlob does for a text of a collection: a negative, a neutral and a
\* positive polarity, or a failure
SummaryOutcomes ==
  { [fails |-> FALSE, polarity |-> p, subjectivity |-> 5004] :
      p \in {-10000, 0, 1004} }
    \cup { [fails |-> TRUE, polarity |-> 0, subjectivity |-> 0] }

Range(f) == { f[x] : x \in DOMAIN f }

\* the collections handed to get_comment_summary
Collections == UNION { [1..k -> SummaryTexts] : k \in 0..MaxComments }

-----------------------------------------------------------------------------
(* The sentiment service as a state machine                                *)

\* no comment is being analysed
SentimentIdle ==
  /\ sentiment_call = ""
  /\ comment = <<>>
  /\ blob = NoBlob
  /\ importance_result = NoImportance
  /\ thresholds = InitialThresholds
  /\ sentiment_result = NoSentiment
  /\ comments = <<>>
  /\ textblob = <<>>
  /\ summary = NoSummary

\* the AI service as constructed without configuration, and never called
AIUnused ==
  /\ settings = [AI_ENABLED |-> FALSE, GEMINI_API_KEY |-> "", REQUESTS_AVAILABLE |-> FALSE]
  /\ enabled = FALSE
  /\ post_count = 0
  /\ call = [op |-> "", request |-> [authenticated |-> FALSE, method |-> "", body |-> "",
                                     first |-> [type |-> "missing", chars |-> <<>>],
                                     second |-> [type |-> "missing", chars |-> <<>>]],
             upstream |-> [transport |-> "", envelope |-> "",
                           text |-> [type |-> "absent", chars |-> <<>>]],
             posts_before |-> 0]
  /\ outcome = [called |-> FALSE, raised |-> "",
                returned |-> [kind |-> "none", keys |-> {}, error |-> "", source |-> <<>>],
                posted |-> 0, extracted |-> <<>>]
  /\ response = [status |-> 0, error |-> "",
                 payload |-> [kind |-> "none", keys |-> {}, error |-> "", source |-> <<>>]]

\* no comment exists, and no request to a post or comment view was made
ViewsUnused ==
  /\ blog_comments = {}
  /\ comment_seq = 0
  /\ view_call = [view |-> "", user |-> 0, slug |-> "", method |-> "", pk |-> 0,
                  status |-> 0,
                  posts_before |-> <<>>, comments_before |-> {}]
  /\ in_flight = <<>>

\* the blog database before any post exists
BlogUnused ==
  /\ posts = <<>>
  /\ interactions = {}
  /\ blog_call = [user |-> 0, slug |-> "", method |-> "", action |-> "",
                  status |-> 0, found |-> {}, likes_count |-> 0,
                  dislikes_count |-> 0]
  /\ ViewsUnused

\* the accounts database before any user exists
AccountsUnused ==
  /\ users = {}
  /\ profiles = {}
  /\ account_call = [operation |-> "", method |-> "", username |-> "", email |-> "",
                     password_ok |-> FALSE, valid |-> FALSE, errors |-> {},
                     status |-> 0, users_before |-> {}, profiles_before |-> {}]

InitSentiment ==
  /\ pc = "idle"
  /\ SentimentIdle
  /\ AIUnused
  /\ BlogUnused
  /\ AccountsUnused

classify_comment_importance ==
  /\ pc = "idle"
  /\ \E text \in CommentTexts, b \in BlobOutcomes :
       /\ comment' = text
       /\ blob' = b
       /\ importance_result' = ClassifyCommentImportance(text, b)
  /\ pc' = "returned"
  /\ sentiment_call' = "classify_comment_importance"
  /\ UNCHANGED <<thresholds, sentiment_result, comments, textblob, summary>>
  /\ UNCHANGED <<ai_vars, blog_vars, account_vars>>

analyze_sentiment ==
  /\ pc = "idle"
  /\ \E text \in SummaryTexts, b \in SentimentOutcomes :
       /\ comment' = text
       /\ blob' = b
       /\ sentiment_result' = AnalyzeSentiment(text, b, thresholds)
  /\ pc' = "returned"
  /\ sentiment_call' = "analyze_sentiment"
  /\ UNCHANGED <<importance_result, thresholds, comments, textblob, summary>>
  /\ UNCHANGED <<ai_vars, blog_vars, account_vars>>

get_comment_summary ==
  /\ pc = "idle"
  /\ \E cs \in Collections :
       \E tb \in [Range(cs) -> SummaryOutcomes] :
         /\ comments' = cs
         /\ textblob' = tb
         /\ summary' = GetCommentSummary(cs, tb, thresholds)
  /\ pc' = "returned"
  /\ sentiment_call' = "get_comment_summary"
  /\ UNCHANGED <<comment, blob, importance_result, thresholds, sentiment_result>>
  /\ UNCHANGED <<ai_vars, blog_vars, account_vars>>

\* the caller takes the returned value; the call's frame is gone
ReturnSentiment ==
  /\ pc = "returned"
  /\ pc' = "idle"
  /\ sentiment_call' = ""
  /\ comment' = <<>>
  /\ blob' = NoBlob
  /\ importance_result' = NoImportance
  /\ sentiment_result' = NoSentiment
  /\ comments' = <<>>
  /\ textblob' = <<>>
  /\ summary' = NoSummary
  /\ UNCHANGED thresholds
  /\ UNCHANGED <<ai_vars, blog_vars, account_vars>>

NextSentiment ==
  \/ classify_comment_importance
  \/ analyze_sentiment
  \/ get_comment_summary
  \/ ReturnSentiment

SpecSentiment == InitSentiment /\ [][NextSentiment]_vars

-----------------------------------------------------------------------------
(* Claims about classify_comment_importance                                *)

\* the number of entries of a keyword list that occur in the lower-cased text
EntriesFound(keywords, text) ==
  LET lowered == Lower(text)
  IN Cardinality({i \in 1..Len(keywords) : Contains(lowered, keywords[i])})

Classified ==
  /\ pc = "returned"
  /\ sentiment_call = "classify_comment_importance"
  /\ ~importance_result.raised

\* C1: classify_comment_importance picks the tier by the first matching rule:
\* HIGH when high_count >= 1 or (negative, constructive and at least 15 words);
\* otherwise MEDIUM when (medium_count >= 1 and (question or constructive)) or
\* score >= 3; otherwise LOW; and the reason is the fixed string of that tier.
C1_TierByFirstMatchingRule ==
  Classified =>
    LET high_count == EntriesFound(high_importance_keywords, comment)
        medium_count == EntriesFound(medium_importance_keywords, comment)
        constructive == HasConstructionWords(Lower(comment))
        negative == blob.polarity < NegativeCut
        question == \E i \in 1..Len(comment) : comment[i] = "?"
        rule_high == high_count >= 1
                       \/ (negative /\ constructive /\ SplitCount(comment) >= 15)
        rule_medium == (medium_count >= 1 /\ (question \/ constructive))
                       \/ importance_result.score >= 3
    IN /\ rule_high => importance_result.importance = "HIGH"
       /\ (~rule_high /\ rule_medium) => importance_result.importance = "MEDIUM"
       /\ (~rule_high /\ ~rule_medium) => importance_result.importance = "LOW"
       /\ importance_result.importance = "HIGH" =>
            importance_result.reason = "Contains constructive feedback or detailed insights"
       /\ importance_result.importance = "MEDIUM" =>
            importance_result.reason = "Contains suggestions or observations for improvement"
       /\ importance_result.importance = "LOW" =>
            importance_result.reason = "Generic or minimal engagement"

\* a comment that matches the HIGH rule and the MEDIUM rule is classified HIGH
C1_Witness ==
  /\ Classified
  /\ importance_result.importance = "HIGH"
  /\ EntriesFound(medium_importance_keywords, comment) >= 1
  /\ HasConstructionWords(Lower(comment))
  /\ importance_result.score >= 3

\* C2: the score is 3*high_count + medium_count + (1 if '?') + (1 if '!'),
\* plus 4 exactly when the polarity is below -0.1 and a constructive word is
\* present; hits are counted per list entry on the lower-cased text and
\* low_count does not contribute.
C2_ScoreFormula ==
  Classified =>
    importance_result.score =
        3 * EntriesFound(high_importance_keywords, comment)
      + EntriesFound(medium_importance_keywords, comment)
      + BoolInt(\E i \in 1..Len(comment) : comment[i] = "?")
      + BoolInt(\E i \in 1..Len(comment) : comment[i] = "!")
      + (IF blob.polarity < NegativeCut /\ HasConstructionWords(Lower(comment))
           THEN 4 ELSE 0)

\* a negative, constructive comment that also hits the duplicated MEDIUM
\* entry "though": 3*1 + 2 + 4
C2_Witness ==
  /\ Classified
  /\ blob.polarity < NegativeCut
  /\ HasConstructionWords(Lower(comment))
  /\ EntriesFound(medium_importance_keywords, comment) = 2
  /\ importance_result.score = 9

-----------------------------------------------------------------------------
(* Claims about analyze_sentiment and get_comment_summary                  *)

Analyzed == pc = "returned" /\ sentiment_call = "analyze_sentiment"
Summarized == pc = "returned" /\ sentiment_call = "get_comment_summary"

\* C11: analyze_sentiment labels a text positive exactly when the model
\* polarity is above 0.1, negative exactly when it is below -0.1 and neutral
\* otherwise, so that 0.1 and -0.1 are neutral; the label is always one of
\* positive, negative, neutral.
C11_LabelByThresholds ==
  Analyzed =>
    /\ sentiment_result.sentiment \in {"positive", "negative", "neutral"}
    /\ ~blob.fails =>
         /\ sentiment_result.sentiment = "positive" <=> blob.polarity > 1000
         /\ sentiment_result.sentiment = "negative" <=> blob.polarity < -1000
         /\ sentiment_result.sentiment = "neutral" <=>
              (blob.polarity >= -1000 /\ blob.polarity <= 1000)

\* a polarity of exactly 0.1 was labelled neutral
C11_Witness ==
  /\ Analyzed
  /\ ~blob.fails
  /\ blob.polarity = 1000
  /\ sentiment_result.sentiment = "neutral"

\* C12: analyze_sentiment never raises; when the sentiment model fails it
\* returns neutral with polarity 0, subjectivity 0 and a failure note, and the
\* two thresholds of the analyzer never change.
C12_FallbackOnFailure ==
  /\ thresholds = [positive_threshold |-> 1000, negative_threshold |-> -1000]
  /\ Analyzed =>
       /\ ~sentiment_result.raised
       /\ blob.fails =>
            /\ sentiment_result.sentiment = "neutral"
            /\ sentiment_result.polarity = 0
            /\ sentiment_result.subjectivity = 0
            /\ "error" \in sentiment_result.keys

\* the sentiment model failed and a result came back
C12_Witness ==
  /\ Analyzed
  /\ blob.fails
  /\ sentiment_result.sentiment = "neutral"
  /\ "error" \in sentiment_result.keys

\* C13: classification and aggregation never raise: when the sentiment model
\* fails on a text, classify_comment_importance still returns a result and
\* get_comment_summary still returns a summary that counts the text; for the
\* empty string classify returns word_count 0, both flags false and tier LOW.
C13_ImportanceNeverRaises ==
  /\ (pc = "returned" /\ sentiment_call = "classify_comment_importance") =>
       /\ ~importance_result.raised
       /\ importance_result.importance \in {"HIGH", "MEDIUM", "LOW"}
       /\ comment = <<>> =>
            /\ importance_result.word_count = 0
            /\ ~importance_result.has_questions
            /\ ~importance_result.has_emphasis
            /\ importance_result.importance = "LOW"
  /\ Summarized =>
       /\ ~summary.raised
       /\ summary.total_comments = Len(comments)

\* C14: every result of analyze_sentiment, normal or fallback, has the four
\* fields sentiment, polarity, subjectivity and confidence, and its
\* confidence is the absolute value of its polarity, within [0, 1].
C14_FourFieldsAndConfidence ==
  Analyzed =>
    /\ {"sentiment", "polarity", "subjectivity", "confidence"}
         \subseteq sentiment_result.keys
    /\ sentiment_result.confidence = Abs(sentiment_result.polarity)
    /\ sentiment_result.confidence >= 0
    /\ sentiment_result.confidence <= 10000

\* get_comment_summary returned a summary of a non-empty collection
SummaryReturned == Summarized /\ comments # <<>> /\ ~summary.raised

\* C15: in the summary returned for a non-empty collection the three
\* sentiment counts add up to total_comments, the three importance counts add
\* up to total_comments, and total_comments is the number of input texts.
C15_CountsAddUp ==
  SummaryReturned =>
    /\ summary.total_comments = Len(comments)
    /\ summary.positive_count + summary.negative_count + summary.neutral_count
         = summary.total_comments
    /\ summary.high_importance_count + summary.medium_importance_count
         + summary.low_importance_count = summary.total_comments

\* a collection that holds the same text twice, with two labels and two tiers
C15_Witness ==
  /\ SummaryReturned
  /\ Len(comments) = 3
  /\ Cardinality(Range(comments)) = 2
  /\ summary.positive_count = 2
  /\ summary.neutral_count = 1
  /\ summary.high_importance_count = 2
  /\ summary.low_importance_count = 1

\* C16: for an empty collection get_comment_summary returns, without raising,
\* a summary in which the total, the three sentiment counts, the three
\* sentiment percentages, the three importance counts and the HIGH percentage
\* are all present and 0.
C16_EmptySummaryComplete ==
  (Summarized /\ comments = <<>>) =>
    /\ ~summary.raised
    /\ {"total_comments", "positive_count", "negative_count", "neutral_count",
        "positive_percentage", "negative_percentage", "neutral_percentage",
        "high_importance_count", "medium_importance_count",
        "low_importance_count", "high_importance_percentage"}
         \subseteq summary.keys
    /\ summary.total_comments = 0
    /\ summary.positive_count = 0
    /\ summary.negative_count = 0
    /\ summary.neutral_count = 0
    /\ summary.positive_percentage = 0
    /\ summary.negative_percentage = 0
    /\ summary.neutral_percentage = 0
    /\ summary.high_importance_count = 0
    /\ summary.medium_importance_count = 0
    /\ summary.low_importance_count = 0
    /\ summary.high_importance_percentage = 0

\* tenths is 100 * count / total to the nearest tenth of a percent
NearestTenth(tenths, count, total) ==
  2 * Abs(tenths * total - 1000 * count) <= total

\* the three percentages read as decimal numbers, added up, in tenths
DecimalSum ==
  summary.positive_percentage + summary.negative_percentage
    + summary.neutral_percentage

\* the sum of the three floats minus DecimalSum / 10, in units of 2^-56 / 10
FloatSumError ==
  DoubleError(summary.positive_percentage) + DoubleError(summary.negative_percentage)
    + DoubleError(summary.neutral_percentage)

\* C17 as stated: each percentage is 100 * count / total rounded to one
\* decimal place, per label, and the sum of the three returned percentages
\* differs from 100.0 by at most 0.1.
C17_SumWithinOneTenth ==
  SummaryReturned =>
    /\ NearestTenth(summary.positive_percentage, summary.positive_count, Len(comments))
    /\ NearestTenth(summary.negative_percentage, summary.negative_count, Len(comments))
    /\ NearestTenth(summary.neutral_percentage, summary.neutral_count, Len(comments))
    /\ DecimalSum \in {999, 1000, 1001}
    /\ DecimalSum = 999 => FloatSumError >= 0
    /\ DecimalSum = 1001 => FloatSumError <= 0

\* C17 (amended): each percentage is 100 * count / total rounded to one
\* decimal place, per label, and the three percentages read as one-decimal
\* numbers add up to 99.9, 100.0 or 100.1; the floats themselves can be
\* further from 100.0 than 0.1 by their representation error.
C17_DecimalSumWithinOneTenth ==
  SummaryReturned =>
    /\ NearestTenth(summary.positive_percentage, summary.positive_count, Len(comments))
    /\ NearestTenth(summary.negative_percentage, summary.negative_count, Len(comments))
    /\ NearestTenth(summary.neutral_percentage, summary.neutral_count, Len(comments))
    /\ DecimalSum \in {999, 1000, 1001}

\* one comment of each label: 33.3 three times, whose floats add up to less
\* than 99.9
C17_Witness ==
  /\ SummaryReturned
  /\ summary.positive_count = 1
  /\ summary.negative_count = 1
  /\ summary.neutral_count = 1
  /\ summary.positive_percentage = 333
  /\ DecimalSum = 999
  /\ FloatSumError < 0

\* the counts of a summary, or that the call raised
CountsOf(result) ==
  <<result.raised, result.total_comments, result.positive_count,
    result.negative_count, result.neutral_count, result.high_importance_count,
    result.medium_importance_count, result.low_importance_count>>

\* the collection in every order
Reorderings ==
  { [i \in 1..Len(comments) |-> comments[order[i]]] :
      order \in Permutations(1..Len(comments)) }

\* the seven counts of a summary
NumbersOf(result) == Tail(CountsOf(result))

\* the counts of the first i comments, each summarised alone, added up
RECURSIVE AloneTotals(_)
AloneTotals(i) ==
  IF i = 0 THEN <<0, 0, 0, 0, 0, 0, 0>>
  ELSE LET one == NumbersOf(GetCommentSummary(<<comments[i]>>, textblob, thresholds))
           rest == AloneTotals(i - 1)
       IN <<one[1] + rest[1], one[2] + rest[2], one[3] + rest[3], one[4] + rest[4],
            one[5] + rest[5], one[6] + rest[6], one[7] + rest[7]>>

\* C18: the counts of get_comment_summary depend only on the multiset of
\* texts: every permutation of the collection gives the same sentiment
\* counts, importance counts and total, and each comment contributes what it
\* contributes alone.
C18_OrderIndependent ==
  Summarized =>
    /\ \A reordered \in Reorderings :
         CountsOf(GetCommentSummary(reordered, textblob, thresholds))
           = CountsOf(summary)
    /\ SummaryReturned => NumbersOf(summary) = AloneTotals(Len(comments))

\* three different texts with three labels and three tiers
C18_Witness ==
  /\ SummaryReturned
  /\ Cardinality(Range(comments)) = 3
  /\ summary.positive_count = 1
  /\ summary.negative_count = 1
  /\ summary.high_importance_count = 1
  /\ summary.medium_importance_count = 1

-----------------------------------------------------------------------------
(* More Python string primitives, used by core/ai_service.py              *)

\* the first index at which sub occurs in s, or 0
Find(s, sub) ==
  IF Contains(s, sub)
    THEN CHOOSE i \in 1..(Len(s) - Len(sub) + 1) :
           /\ SubSeq(s, i, i + Len(sub) - 1) = sub
           /\ \A j \in 1..(i - 1) : SubSeq(s, j, j + Len(sub) - 1) # sub
    ELSE 0

\* s.split(sep): the pieces between the occurrences of sep, found left to right
RECURSIVE Split(_, _)
Split(s, sep) ==
  LET i == Find(s, sep)
  IN IF i = 0 THEN <<s>>
     ELSE <<SubSeq(s, 1, i - 1)>> \o Split(SubSeq(s, i + Len(sep), Len(s)), sep)

\* s.lstrip() and s.rstrip()
RECURSIVE LStrip(_)
LStrip(s) ==
  IF s # <<>> /\ Head(s) \in PyWhitespace THEN LStrip(Tail(s)) ELSE s

RECURSIVE RStrip(_)
RStrip(s) ==
  IF s # <<>> /\ s[Len(s)] \in PyWhitespace
    THEN RStrip(SubSeq(s, 1, Len(s) - 1)) ELSE s

\* s.strip()
Strip(s) == RStrip(LStrip(s))

-----------------------------------------------------------------------------
(* json.loads, for texts over the characters the model outputs use         *)

JsonWhitespace == {" ", "\t", "\n", "\r"}
JsonDigits == {"0", "1", "2", "3", "4", "5", "6", "7", "8", "9"}
JsonLiterals == { <<"t","r","u","e">>, <<"f","a","l","s","e">>, <<"n","u","l","l">> }
\* characters a JSON string may not hold unescaped
JsonControl == {"\n", "\t", "\r", "\f"}

\* the character at i, "" past the end
At(s, i) == IF i >= 1 /\ i <= Len(s) THEN s[i] ELSE ""

RECURSIVE SkipWs(_, _)
SkipWs(s, i) == IF At(s, i) \in JsonWhitespace THEN SkipWs(s, i + 1) ELSE i

\* the index of the quote closing a string whose body starts at i, or 0
RECURSIVE StringEnd(_, _)
StringEnd(s, i) ==
  IF i > Len(s) \/ s[i] \in JsonControl \/ s[i] = "\\" THEN 0
  ELSE IF s[i] = "\"" THEN i
  ELSE StringEnd(s, i + 1)

\* the index after the digits of a number that starts at i
RECURSIVE DigitsEnd(_, _)
DigitsEnd(s, i) == IF At(s, i) \in JsonDigits THEN DigitsEnd(s, i + 1) ELSE i

JsonFail == [ok |-> FALSE, next |-> 0, kind |-> "", keys |-> {}]
JsonOk(next, kind, keys) == [ok |-> TRUE, next |-> next, kind |-> kind, keys |-> keys]

\* whether the literal lit starts at i
LiteralAt(s, i, lit) ==
  i + Len(lit) - 1 <= Len(s) /\ SubSeq(s, i, i + Len(lit) - 1) = lit

RECURSIVE ScanValue(_, _)
RECURSIVE ScanMembers(_, _, _)
RECURSIVE ScanElements(_, _)

\* the members of an object, from the first key at i
ScanMembers(s, i, keys) ==
  IF At(s, i) # "\"" THEN JsonFail
  ELSE LET close == StringEnd(s, i + 1)
           colon == SkipWs(s, close + 1)
           v == ScanValue(s, SkipWs(s, colon + 1))
           after == SkipWs(s, v.next)
           found == keys \cup {SubSeq(s, i + 1, close - 1)}
       IN IF close = 0 \/ At(s, colon) # ":" THEN JsonFail
          ELSE IF ~v.ok THEN JsonFail
          ELSE IF At(s, after) = "," THEN ScanMembers(s, SkipWs(s, after + 1), found)
          ELSE IF At(s, after) = "}" THEN JsonOk(after + 1, "object", found)
          ELSE JsonFail

\* the elements of an array, from the first element at i
ScanElements(s, i) ==
  LET v == ScanValue(s, i)
      after == SkipWs(s, v.next)
  IN IF ~v.ok THEN JsonFail
     ELSE IF At(s, after) = "," THEN ScanElements(s, SkipWs(s, after + 1))
     ELSE IF At(s, after) = "]" THEN JsonOk(after + 1, "array", {})
     ELSE JsonFail

\* one JSON value that starts at i
ScanValue(s, i) ==
  LET c == At(s, i)
  IN IF c = "{"
       THEN LET j == SkipWs(s, i + 1)
            IN IF At(s, j) = "}" THEN JsonOk(j + 1, "object", {})
               ELSE ScanMembers(s, j, {})
     ELSE IF c = "["
       THEN LET j == SkipWs(s, i + 1)
            IN IF At(s, j) = "]" THEN JsonOk(j + 1, "array", {})
               ELSE ScanElements(s, j)
     ELSE IF c = "\""
       THEN LET close == StringEnd(s, i + 1)
            IN IF close = 0 THEN JsonFail ELSE JsonOk(close + 1, "string", {})
     ELSE IF c = "0" THEN JsonOk(i + 1, "number", {})
     ELSE IF c \in JsonDigits THEN JsonOk(DigitsEnd(s, i), "number", {})
     ELSE IF \E lit \in JsonLiterals : LiteralAt(s, i, lit)
       THEN JsonOk(i + Len(CHOOSE lit \in JsonLiterals : LiteralAt(s, i, lit)),
                   "literal", {})
     ELSE JsonFail

NotParsed == [ok |-> FALSE, kind |-> "", keys |-> {}, source |-> <<>>]

\* json.loads(s): the parsed value (its kind, the keys of an object, and the
\* characters it was read from), or ok = FALSE for a JSONDecodeError
JsonLoads(s) ==
  LET start == SkipWs(s, 1)
      v == ScanValue(s, start)
      end == SkipWs(s, v.next)
  IN IF ~v.ok \/ end <= Len(s) THEN NotParsed
     ELSE [ok |-> TRUE, kind |-> v.kind, keys |-> v.keys,
           source |-> SubSeq(s, start, v.next - 1)]

-----------------------------------------------------------------------------
(* core/ai_service.py: the values it handles                               *)

\* SANY has no backtick inside a string: BT stands for the character U+0060
BT == "backtick"
Fence == <<BT, BT, BT>>
FenceJson == <<BT, BT, BT, "j", "s", "o", "n">>
ErrorKey == <<"e","r","r","o","r">>

\* a JSON value of the provider's envelope: its type, and its characters when
\* it is a string
JsonString(chars) == [type |-> "string", chars |-> chars]
JsonOther(type) == [type |-> type, chars |-> <<>>]

\* The provider's reply to one POST.  transport is what requests.post,
\* raise_for_status and response.json do; envelope names the shape of the
\* decoded body; text is the value of the first part's "text" field.
NoUpstream == [transport |-> "", envelope |-> "", text |-> JsonOther("absent")]

\* the decoded body (data) as nested records; an object without fields is <<>>
EnvelopeData(up) ==
  LET part == IF up.envelope = "no_text" THEN <<>> ELSE [text |-> up.text]
      parts == IF up.envelope = "empty_parts" THEN <<>> ELSE <<part>>
      content == IF up.envelope = "no_parts" THEN <<>> ELSE [parts |-> parts]
      candidate == IF up.envelope = "no_content" THEN <<>> ELSE [content |-> content]
      candidates == IF up.envelope = "empty_candidates" THEN <<>> ELSE <<candidate>>
  IN IF up.envelope = "no_candidates" THEN <<>>
     ELSE IF up.envelope = "null_candidates" THEN [candidates |-> "null"]
     ELSE [candidates |-> candidates]

\* a dict returned by the service: its keys, and the values of 'error' and 'text'
ErrorDict(message) ==
  [keys |-> {"error"}, error |-> message, text |-> JsonOther("absent")]
SuccessDict(text) ==
  [keys |-> {"success", "text"}, error |-> "", text |-> text]

\* lines 78-85: the generated text of the envelope, or 'No response from AI model'
ExtractGeneratedText(up) ==
  LET data == EnvelopeData(up)
  IN IF "candidates" \in DOMAIN data
       THEN IF up.envelope = "null_candidates"
              THEN ErrorDict("Unexpected error")   \* len(None): TypeError, line 91
            ELSE IF Len(data.candidates) > 0
              THEN LET candidate == data.candidates[1]
                   IN IF "content" \in DOMAIN candidate
                           /\ "parts" \in DOMAIN candidate.content
                        THEN IF Len(candidate.content.parts) > 0
                               THEN LET part == candidate.content.parts[1]
                                    IN SuccessDict(IF "text" \in DOMAIN part
                                                     THEN part.text
                                                     ELSE JsonString(<<>>))
                               ELSE ErrorDict("No response from AI model")
                        ELSE ErrorDict("No response from AI model")
            ELSE ErrorDict("No response from AI model")
       ELSE ErrorDict("No response from AI model")

\* a variant that posts a second time after a transport failure
CallGeminiApiRetrying(available, up) ==
  IF ~available
    THEN [result |-> ErrorDict("AI service not available"), posted |-> 0]
  ELSE IF up.transport \in {"timeout", "connection_error", "http_error",
                            "invalid_json_request_exception"}
    THEN [result |-> ErrorDict("API request failed"), posted |-> 2]
  ELSE IF up.transport = "invalid_json_decode_error"
    THEN [result |-> ErrorDict("Failed to parse API response"), posted |-> 1]
  ELSE [result |-> ExtractGeneratedText(up), posted |-> 1]

\* AIService._call_gemini_api(prompt), once is_available() has answered:
\* the dict it returns and the number of requests.post calls it makes
CallGeminiApi(available, up) ==
  IF ~available
    THEN [result |-> ErrorDict("AI service not available"), posted |-> 0]
  ELSE IF up.transport \in {"timeout", "connection_error", "http_error",
                            "invalid_json_request_exception"}
    THEN [result |-> ErrorDict("API request failed"), posted |-> 1]
  ELSE IF up.transport = "invalid_json_decode_error"
    THEN [result |-> ErrorDict("Failed to parse API response"), posted |-> 1]
  ELSE [result |-> ExtractGeneratedText(up), posted |-> 1]

-----------------------------------------------------------------------------
(* core/ai_service.py: the four generation operations                      *)

\* a variant that looks for the bare fence only
ExtractJsonAnyFence(text) ==
  IF Contains(text, Fence)
    THEN LET after == Split(text, Fence)
         IN IF Len(after) < 2 THEN [raised |-> TRUE, text |-> <<>>]
            ELSE [raised |-> FALSE, text |-> Strip(Split(after[2], Fence)[1])]
  ELSE [raised |-> FALSE, text |-> text]

\* the local variable text after lines 129-132, or an IndexError from [1]
ExtractJson(text) ==
  IF Contains(text, FenceJson)
    THEN LET after == Split(text, FenceJson)
         IN IF Len(after) < 2 THEN [raised |-> TRUE, text |-> <<>>]
            ELSE [raised |-> FALSE, text |-> Strip(Split(after[2], Fence)[1])]
  ELSE IF Contains(text, Fence)
    THEN LET after == Split(text, Fence)
         IN IF Len(after) < 2 THEN [raised |-> TRUE, text |-> <<>>]
            ELSE [raised |-> FALSE, text |-> Strip(Split(after[2], Fence)[1])]
  ELSE [raised |-> FALSE, text |-> text]

\* A value a generation operation returns: a dict the service built
\* (error # ""), or whatever json.loads produced.
NoValue == [kind |-> "none", keys |-> {}, error |-> "", source |-> <<>>]
ErrorValue(message) ==
  [kind |-> "object", keys |-> {ErrorKey}, error |-> message, source |-> <<>>]
ParsedValue(parsed) ==
  [kind |-> parsed.kind, keys |-> parsed.keys, error |-> "", source |-> parsed.source]

\* How a call of a generation operation ends: raised names an exception that
\* leaves the operation, returned is the value it returns otherwise; posted
\* counts its requests.post calls and extracted is the text handed to json.loads.
NoOutcome ==
  [called |-> FALSE, raised |-> "", returned |-> NoValue, posted |-> 0,
   extracted |-> <<>>]
Returns(value, posted, extracted) ==
  [called |-> TRUE, raised |-> "", returned |-> value, posted |-> posted,
   extracted |-> extracted]
Raises(exception, posted) ==
  [called |-> TRUE, raised |-> exception, returned |-> NoValue, posted |-> posted,
   extracted |-> <<>>]

\* lines 126-137: the try block that extracts and parses the generated text.
\* Only JSONDecodeError, KeyError and IndexError are caught.
ParseAIResponse(result, posted) ==
  LET text == result.text
      extraction == ExtractJson(text.chars)
      parsed == JsonLoads(extraction.text)
  IN IF text.type # "string" THEN Raises("TypeError", posted)
     ELSE IF extraction.raised
       THEN Returns(ErrorValue("Failed to parse AI response"), posted, <<>>)
     ELSE IF ~parsed.ok
       THEN Returns(ErrorValue("Failed to parse AI response"), posted, extraction.text)
     ELSE Returns(ParsedValue(parsed), posted, extraction.text)

\* the body the four operations share: the availability check, the call of
\* _call_gemini_api, the early return of its error, the extraction
GenerationOperation(available, up) ==
  IF ~available THEN Returns(ErrorValue("AI service not available"), 0, <<>>)
  ELSE LET api == CallGeminiApi(available, up)
       IN IF "error" \in api.result.keys
            THEN Returns(ErrorValue(api.result.error), api.posted, <<>>)
            ELSE ParseAIResponse(api.result, api.posted)

GenerateBlogFromIdea(available, up) == GenerationOperation(available, up)
EnhanceContent(available, up) == GenerationOperation(available, up)
TranslateContent(available, up) == GenerationOperation(available, up)
SuggestImages(available, up) == GenerationOperation(available, up)

ServiceOperation(op, available, up) ==
  CASE op = "generate_blog_from_idea" -> GenerateBlogFromIdea(available, up)
    [] op = "enhance_content" -> EnhanceContent(available, up)
    [] op = "translate_content" -> TranslateContent(available, up)
    [] op = "suggest_images" -> SuggestImages(available, up)

-----------------------------------------------------------------------------
(* blog/views.py: the three AI endpoints                                   *)

\* a parameter of the request body: absent, or a JSON value
ParamValues ==
  { JsonOther("missing"), JsonOther("null"),
    JsonString(<<>>), JsonString(<<" ">>), JsonString(<<"x">>) }

NoRequest ==
  [authenticated |-> FALSE, method |-> "", body |-> "",
   first |-> JsonOther("missing"), second |-> JsonOther("missing")]

Requests ==
  [authenticated : BOOLEAN, method : {"GET", "POST"},
   body : {"invalid_json", "object"}, first : ParamValues, second : ParamValues]

NoResponse == [status |-> 0, error |-> "", payload |-> NoValue]
ErrorResponse(status, message) ==
  [status |-> status, error |-> message, payload |-> NoValue]

\* data.get(name, ''): the value, '' when the key is absent
GetOrEmpty(param) == IF param.type = "missing" THEN JsonString(<<>>) ELSE param

\* a variant that does not check the parameters
ViewPrecheckUnvalidated(req, required, available) ==
  IF ~req.authenticated THEN ErrorResponse(302, "")
  ELSE IF req.method # "POST" THEN ErrorResponse(405, "")
  ELSE IF req.body = "invalid_json" THEN ErrorResponse(400, "Invalid JSON")
  ELSE IF ~available THEN ErrorResponse(503, "AI service is not available")
  ELSE NoResponse

\* What a view answers before it reaches the service (status 0: it goes on).
\* required is the sequence of <<parameter, message>> pairs the view checks;
\* every .strip() runs before the first check.
ViewPrecheck(req, required, available) ==
  LET values == [i \in 1..Len(required) |-> GetOrEmpty(required[i][1])]
      empty == {i \in 1..Len(required) : Strip(values[i].chars) = <<>>}
  IN IF ~req.authenticated THEN ErrorResponse(302, "")
     ELSE IF req.method # "POST" THEN ErrorResponse(405, "")
     ELSE IF req.body = "invalid_json" THEN ErrorResponse(400, "Invalid JSON")
     ELSE IF \E i \in 1..Len(required) : values[i].type # "string"
       THEN ErrorResponse(500, "AttributeError")
     ELSE IF empty # {}
       THEN ErrorResponse(400, required[CHOOSE i \in empty : \A j \in empty : i <= j][2])
     ELSE IF ~available THEN ErrorResponse(503, "AI service is not available")
     ELSE NoResponse

\* What a view answers once the service call has ended (lines 437-446): an
\* exception of the service, or of "'error' in result", result['error'] or
\* JsonResponse(result) on a result that is no dict, is caught as a 500.
ViewAnswer(out) ==
  LET result == out.returned
  IN IF out.raised # "" THEN ErrorResponse(500, out.raised)
     ELSE IF result.kind # "object" THEN ErrorResponse(500, "TypeError")
     ELSE IF ErrorKey \in result.keys THEN ErrorResponse(400, result.error)
     ELSE [status |-> 200, error |-> "", payload |-> result]

RequiredOf(view, req) ==
  CASE view = "api_generate_blog_from_idea" -> << <<req.first, "Idea is required">> >>
    [] view = "api_enhance_content" -> << <<req.first, "Content is required">> >>
    [] view = "api_translate_content" ->
         << <<req.first, "Content is required">>,
            <<req.second, "Target language is required">> >>

OperationOf(view) ==
  CASE view = "api_generate_blog_from_idea" -> "generate_blog_from_idea"
    [] view = "api_enhance_content" -> "enhance_content"
    [] view = "api_translate_content" -> "translate_content"

-----------------------------------------------------------------------------
(* The configurations, provider replies and requests explored              *)

MaxOutputPieces == 3
MaxPosts == 2

ObjectText == <<"{", "\"", "a", "\"", ":", "1", "}">>

\* a JSON object whose one value is a string that holds a fence
FencedStringObject == <<"{", "\"", "a", "\"", ":", "\"">> \o Fence \o <<"\"", "}">>

\* pieces of a generated text: the two fence markers, a JSON object bare and
\* between line breaks, a JSON array, a form feed, a letter of prose and a
\* JSON object with a fence inside a string
OutputPieces ==
  { FenceJson, Fence, ObjectText, <<"\n">> \o ObjectText \o <<"\n">>,
    <<"[", "1", "]">>, <<"\f">>, <<"x">>, FencedStringObject }

OutputTexts == TextsOf(OutputPieces, MaxOutputPieces)

TextValues ==
  { JsonString(t) : t \in OutputTexts }
    \cup { JsonOther("number"), JsonOther("null"), JsonOther("array") }

TransportFailures ==
  {"timeout", "connection_error", "http_error",
   "invalid_json_request_exception", "invalid_json_decode_error"}

EnvelopesWithoutText ==
  {"no_candidates", "null_candidates", "empty_candidates", "no_content",
   "no_parts", "empty_parts", "no_text"}

Upstreams ==
  { [transport |-> t, envelope |-> "", text |-> JsonOther("absent")] :
      t \in TransportFailures }
    \cup { [transport |-> "ok", envelope |-> e, text |-> JsonOther("absent")] :
             e \in EnvelopesWithoutText }
    \cup { [transport |-> "ok", envelope |-> "text", text |-> v] : v \in TextValues }

SettingsValues ==
  [AI_ENABLED : BOOLEAN, GEMINI_API_KEY : {"", "key"}, REQUESTS_AVAILABLE : BOOLEAN]

\* the requests a view is sent: only api_translate_content reads a second parameter
RequestsOf(view) ==
  { req \in Requests :
      view # "api_translate_content" => req.second = JsonOther("missing") }

-----------------------------------------------------------------------------
(* The AI service and its endpoints as a state machine                     *)

\* a variant that does not look at the credential
IsEnabledWithoutKey(config) == config.AI_ENABLED /\ config.REQUESTS_AVAILABLE

\* the truth value of AI_ENABLED and api_key and REQUESTS_AVAILABLE
IsEnabled(config) ==
  config.AI_ENABLED /\ config.GEMINI_API_KEY # "" /\ config.REQUESTS_AVAILABLE

\* AIService.__init__
InitAI ==
  /\ pc = "idle"
  /\ SentimentIdle
  /\ settings \in SettingsValues
  /\ enabled = IsEnabled(settings)
  /\ post_count = 0
  /\ call = [op |-> "", request |-> NoRequest, upstream |-> NoUpstream, posts_before |-> 0]
  /\ outcome = NoOutcome
  /\ response = NoResponse
  /\ BlogUnused
  /\ AccountsUnused

\* the state a finished call leaves
Finish(op, req, up, out, answer) ==
  /\ pc' = "returned"
  /\ call' = [op |-> op, request |-> req, upstream |-> up, posts_before |-> post_count]
  /\ outcome' = out
  /\ response' = answer
  /\ post_count' = post_count + out.posted
  /\ UNCHANGED <<settings, enabled, sentiment_vars, blog_vars, account_vars>>

\* a direct call of one of the four operations of ai_service
ServiceCall(op) ==
  /\ pc = "idle"
  /\ post_count < MaxPosts
  /\ IF enabled
       THEN \E up \in Upstreams :
              Finish(op, NoRequest, up, ServiceOperation(op, enabled, up), NoResponse)
       ELSE Finish(op, NoRequest, NoUpstream,
                   ServiceOperation(op, enabled, NoUpstream), NoResponse)

generate_blog_from_idea == ServiceCall("generate_blog_from_idea")

enhance_content == ServiceCall("enhance_content")

translate_content == ServiceCall("translate_content")

suggest_images == ServiceCall("suggest_images")

\* a request to one of the three AI endpoints
ViewCall(view) ==
  /\ pc = "idle"
  /\ post_count < MaxPosts
  /\ \E req \in RequestsOf(view) :
       LET early == ViewPrecheck(req, RequiredOf(view, req), enabled)
       IN IF early.status = 0
            THEN \E up \in Upstreams :
                   LET out == ServiceOperation(OperationOf(view), enabled, up)
                   IN Finish(view, req, up, out, ViewAnswer(out))
            ELSE Finish(view, req, NoUpstream, NoOutcome, early)

api_generate_blog_from_idea == ViewCall("api_generate_blog_from_idea")

api_enhance_content == ViewCall("api_enhance_content")

api_translate_content == ViewCall("api_translate_content")

\* the caller takes the result; the call's frame is gone
ReturnAI ==
  /\ pc = "returned"
  /\ pc' = "idle"
  /\ call' = [op |-> "", request |-> NoRequest, upstream |-> NoUpstream,
              posts_before |-> 0]
  /\ outcome' = NoOutcome
  /\ response' = NoResponse
  /\ UNCHANGED <<settings, enabled, post_count, sentiment_vars, blog_vars, account_vars>>

NextAI ==
  \/ generate_blog_from_idea
  \/ enhance_content
  \/ translate_content
  \/ suggest_images
  \/ api_generate_blog_from_idea
  \/ api_enhance_content
  \/ api_translate_content
  \/ ReturnAI

SpecAI == InitAI /\ [][NextAI]_vars

-----------------------------------------------------------------------------
(* Claims about the generation operations                                  *)

\* a generation operation was called and the caller holds how it ended
Called == pc = "returned" /\ outcome.called

\* the provider answered with a generated text that is a string, so the
\* operation reached its extraction step
ExtractionRan ==
  /\ Called
  /\ enabled
  /\ call.upstream.transport = "ok"
  /\ call.upstream.envelope = "text"
  /\ call.upstream.text.type = "string"

GeneratedText == call.upstream.text.chars

\* the part of text after the first occurrence of opening, up to the next
\* fence, or to the end of the text when no fence follows
Between(text, opening) ==
  LET rest == SubSeq(text, Find(text, opening) + Len(opening), Len(text))
      closing == Find(rest, Fence)
  IN IF closing = 0 THEN rest ELSE SubSeq(rest, 1, closing - 1)

\* the substring the three-branch rule selects
Selected(text) ==
  IF Contains(text, FenceJson) THEN Between(text, FenceJson)
  ELSE IF Contains(text, Fence) THEN Between(text, Fence)
  ELSE text

\* what parsing a text must give the caller
ParseOf(text) ==
  IF JsonLoads(text).ok THEN ParsedValue(JsonLoads(text))
  ELSE ErrorValue("Failed to parse AI response")

IsErrorDescriptor(value) == value.kind = "object" /\ ErrorKey \in value.keys
IsPayload(value) == value.kind = "object" /\ ErrorKey \notin value.keys

\* C3 as stated: the operation parses the substring between the first json
\* fence marker and the next fence, else the substring between the first pair
\* of fences, else the whole text: it returns the parse of that substring.
C3_ParsesSubstringBetweenFences ==
  ExtractionRan =>
    /\ outcome.raised = ""
    /\ outcome.returned = ParseOf(Selected(GeneratedText))

\* C3 (amended): the text handed to the parser is the selected substring with
\* its leading and trailing whitespace removed in the two fenced branches, and
\* the whole text unchanged when there is no fence; a missing closing fence
\* takes the rest of the text, and no index error occurs.
C3_SelectsStrippedSubstring ==
  ExtractionRan =>
    LET expected == IF Contains(GeneratedText, Fence)
                      THEN Strip(Selected(GeneratedText))
                      ELSE Selected(GeneratedText)
    IN /\ outcome.raised = ""
       /\ outcome.extracted = expected
       /\ outcome.returned = ParseOf(expected)

\* a json fence marker without a closing fence: the rest of the text is
\* stripped, parsed and returned
C3_Witness ==
  /\ ExtractionRan
  /\ Contains(GeneratedText, FenceJson)
  /\ Find(SubSeq(GeneratedText, Find(GeneratedText, FenceJson) + Len(FenceJson),
                 Len(GeneratedText)), Fence) = 0
  /\ outcome.extracted # Selected(GeneratedText)
  /\ outcome.returned.kind = "object"

\* C4: when the extracted text is not a JSON object (malformed, or a list, a
\* string, a number), the operation returns the ParseError descriptor.
C4_ParseErrorUnlessObject ==
  ExtractionRan =>
    (JsonLoads(outcome.extracted).kind # "object" =>
       outcome.returned = ErrorValue("Failed to parse AI response"))

\* C5: no generation operation raises to its caller, whatever the transport
\* does and whatever the generated-text field holds.
C5_NeverRaises == Called => outcome.raised = ""

\* C6: every value a generation operation returns is an error descriptor or a
\* payload object, and not both.
C6_ErrorOrPayload ==
  (Called /\ outcome.raised = "") =>
    IsErrorDescriptor(outcome.returned) # IsPayload(outcome.returned)

\* C7: with generation disabled, no credential or no HTTP transport, a call of
\* any of the four operations returns 'AI service not available' and no
\* request is posted; the availability is the one decided at construction.
C7_UnavailableMakesNoCall ==
  /\ enabled = (settings.AI_ENABLED /\ settings.GEMINI_API_KEY # ""
                  /\ settings.REQUESTS_AVAILABLE)
  /\ (~settings.AI_ENABLED \/ settings.GEMINI_API_KEY = ""
        \/ ~settings.REQUESTS_AVAILABLE) =>
       /\ post_count = 0
       /\ Called => /\ outcome.returned = ErrorValue("AI service not available")
                    /\ outcome.raised = ""
                    /\ post_count = call.posts_before

\* suggest_images called with generation enabled but no credential
C7_Witness ==
  /\ Called
  /\ call.op = "suggest_images"
  /\ settings.AI_ENABLED /\ settings.REQUESTS_AVAILABLE /\ settings.GEMINI_API_KEY = ""
  /\ outcome.returned.error = "AI service not available"
  /\ post_count = 0

\* the provider's reply was a failure of the transport, an envelope without
\* text, or a text that does not parse
ReplyFailed ==
  \/ call.upstream.transport # "ok"
  \/ call.upstream.envelope # "text"
  \/ ExtractionRan /\ ~JsonLoads(outcome.extracted).ok

C9_EmptyResponse ==
  (Called /\ enabled /\ call.upstream.transport = "ok"
     /\ call.upstream.envelope \in {"no_candidates", "empty_candidates", "no_content",
                                    "no_parts", "empty_parts", "no_text"}) =>
    outcome.returned = ErrorValue("No response from AI model")

\* whether text is opening, a line break, some J, a line break and a fence
Wraps(text, opening) ==
  /\ Len(text) >= Len(opening) + 1 + 1 + Len(Fence)
  /\ SubSeq(text, 1, Len(opening) + 1) = opening \o <<"\n">>
  /\ SubSeq(text, Len(text) - Len(Fence), Len(text)) = <<"\n">> \o Fence

\* the J of a text that wraps it
Wrapped(text, opening) ==
  SubSeq(text, Len(opening) + 2, Len(text) - Len(Fence) - 1)

IsJsonObject(text) == JsonLoads(text).ok /\ JsonLoads(text).kind = "object"

\* C19: for every text J that parses as a JSON object, the outputs json fence
\* + line break + J + line break + fence, fence + line break + J + line break
\* + fence, and J alone all make the operation return the parse of J.
C19_SameObjectFencedOrNot ==
  ExtractionRan =>
    /\ IsJsonObject(GeneratedText) =>
         /\ outcome.raised = ""
         /\ outcome.returned = ParsedValue(JsonLoads(GeneratedText))
    /\ \A opening \in {FenceJson, Fence} :
         (Wraps(GeneratedText, opening)
            /\ IsJsonObject(Wrapped(GeneratedText, opening))) =>
           /\ outcome.raised = ""
           /\ outcome.returned = ParsedValue(JsonLoads(Wrapped(GeneratedText, opening)))

\* the required parameters of the request the caller holds the answer to
RequiredParams ==
  IF call.op = "api_translate_content"
    THEN {call.request.first, call.request.second}
    ELSE {call.request.first}

IsViewCall ==
  /\ pc = "returned"
  /\ call.op \in {"api_generate_blog_from_idea", "api_enhance_content",
                  "api_translate_content"}

\* a required parameter is absent, or a string that is empty once stripped
SomeParamMissingOrEmpty ==
  \E param \in RequiredParams :
    \/ param.type = "missing"
    \/ param.type = "string" /\ Strip(param.chars) = <<>>

-----------------------------------------------------------------------------
(* blog/views.py: blog_interact                                            *)

MaxUsers == 2

Users == 1..MaxUsers

\* request.user of a request without a session
Anonymous == 0

\* the slugs of the two posts of the database
PostSlugs == {"published-post", "draft-post"}

\* a PostInteraction row
Interaction(slug, user, type) ==
  [post |-> slug, user |-> user, interaction_type |-> type]

NoBlogCall ==
  [user |-> 0, slug |-> "", method |-> "", action |-> "", status |-> 0,
   found |-> {}, likes_count |-> 0, dislikes_count |-> 0]

\* the requests sent to blog_interact; "" is a POST body without an action
BlogRequests ==
  [user : Users \cup {Anonymous}, slug : PostSlugs, method : {"GET", "POST"},
   action : {"like", "dislike", ""}]

\* max(0, n)
AtLeastZero(n) == IF n < 0 THEN 0 ELSE n

\* an answer that leaves the database as it is
Untouched(rows, records, status) ==
  [posts |-> rows, interactions |-> records, status |-> status]

\* a variant that keeps the opposite interaction when the user switches
BlogInteractKeepingOpposite(rows, records, req) ==
  LET blog == rows[req.slug]
      like == Interaction(req.slug, req.user, "like")
      dislike == Interaction(req.slug, req.user, "dislike")
  IN IF req.user = Anonymous THEN Untouched(rows, records, 302)
     ELSE IF req.method # "POST" THEN Untouched(rows, records, 405)
     ELSE IF blog.status # "published" THEN Untouched(rows, records, 404)
     ELSE IF req.action \notin {"like", "dislike"} THEN Untouched(rows, records, 302)
     ELSE IF req.action = "like"
       THEN IF like \in records
              THEN [posts |-> [rows EXCEPT ![req.slug].likes_count =
                                             AtLeastZero(blog.likes_count - 1)],
                    interactions |-> records \ {like}, status |-> 302]
              ELSE [posts |-> [rows EXCEPT ![req.slug].likes_count =
                                             blog.likes_count + 1],
                    interactions |-> records \cup {like}, status |-> 302]
     ELSE IF dislike \in records
       THEN [posts |-> [rows EXCEPT ![req.slug].dislikes_count =
                                      AtLeastZero(blog.dislikes_count - 1)],
             interactions |-> records \ {dislike}, status |-> 302]
       ELSE [posts |-> [rows EXCEPT ![req.slug].dislikes_count =
                                      blog.dislikes_count + 1],
             interactions |-> records \cup {dislike}, status |-> 302]

\* blog_interact(request, slug) with its two decorators: the rows of BlogPost
\* and PostInteraction after the request, and the status of the answer.
\* login_required answers first, then require_http_methods, then the view.
BlogInteract(rows, records, req) ==
  LET blog == rows[req.slug]
      like == Interaction(req.slug, req.user, "like")
      dislike == Interaction(req.slug, req.user, "dislike")
      existing_like == like \in records
      existing_dislike == dislike \in records
  IN IF req.user = Anonymous THEN Untouched(rows, records, 302)
     ELSE IF req.method # "POST" THEN Untouched(rows, records, 405)
     ELSE IF blog.status # "published" THEN Untouched(rows, records, 404)
     ELSE IF req.action \notin {"like", "dislike"} THEN Untouched(rows, records, 302)
     ELSE IF req.action = "like"
       THEN IF existing_like
              THEN [posts |-> [rows EXCEPT ![req.slug].likes_count =
                                             AtLeastZero(blog.likes_count - 1)],
                    interactions |-> records \ {like}, status |-> 302]
              ELSE [posts |->
                      [rows EXCEPT ![req.slug] =
                         [blog EXCEPT
                            !.dislikes_count =
                               IF existing_dislike
                                 THEN AtLeastZero(blog.dislikes_count - 1)
                                 ELSE blog.dislikes_count,
                            !.likes_count = blog.likes_count + 1]],
                    interactions |-> (records \ {dislike}) \cup {like},
                    status |-> 302]
     ELSE IF existing_dislike
       THEN [posts |-> [rows EXCEPT ![req.slug].dislikes_count =
                                      AtLeastZero(blog.dislikes_count - 1)],
             interactions |-> records \ {dislike}, status |-> 302]
       ELSE [posts |->
               [rows EXCEPT ![req.slug] =
                  [blog EXCEPT
                     !.likes_count =
                        IF existing_like
                          THEN AtLeastZero(blog.likes_count - 1)
                          ELSE blog.likes_count,
                     !.dislikes_count = blog.dislikes_count + 1]],
             interactions |-> (records \ {like}) \cup {dislike},
             status |-> 302]

-----------------------------------------------------------------------------
(* The blog as a state machine                                             *)

\* the title and the content the posts are created with
OriginalTitle == <<"D", "j", "a", "n", "g", "o">>

OriginalContent == <<"T", "e", "x", "t">>

\* a post as BlogPost.objects.create leaves it: the four counters default to 0
NewPost(author, status) ==
  [author |-> author, status |-> status, title |-> OriginalTitle,
   content |-> OriginalContent, likes_count |-> 0, dislikes_count |-> 0,
   comments_count |-> 0, views_count |-> 0]

\* two posts of user 1, one published and one draft, and no interaction yet
InitBlog ==
  /\ pc = "idle"
  /\ SentimentIdle
  /\ AIUnused
  /\ posts = [slug \in PostSlugs |->
                NewPost(1, IF slug = "published-post" THEN "published" ELSE "draft")]
  /\ interactions = {}
  /\ blog_call = NoBlogCall
  /\ ViewsUnused
  /\ AccountsUnused

\* one request to a view of the blog, handled from its first line to its last
HandleBlogRequest(view) ==
  /\ pc = "idle"
  /\ \E req \in BlogRequests :
       LET after == BlogInteract(posts, interactions, req)
       IN /\ posts' = after.posts
          /\ interactions' = after.interactions
          /\ blog_call' =
               [user |-> req.user, slug |-> req.slug, method |-> req.method,
                action |-> req.action, status |-> after.status,
                found |-> {type \in {"like", "dislike"} :
                             Interaction(req.slug, req.user, type) \in interactions},
                likes_count |-> posts[req.slug].likes_count,
                dislikes_count |-> posts[req.slug].dislikes_count]
  /\ UNCHANGED <<pc, sentiment_vars, ai_vars, account_vars>>
  /\ UNCHANGED <<blog_comments, comment_seq, view_call, in_flight>>

blog_interact == HandleBlogRequest("blog_interact")

NextBlog == blog_interact

SpecBlog == InitBlog /\ [][NextBlog]_vars

-----------------------------------------------------------------------------
(* Claims about blog_interact                                              *)

\* the last request was a like or dislike of a published post by a logged-in
\* user
Toggled ==
  /\ blog_call.user \in Users
  /\ blog_call.method = "POST"
  /\ blog_call.action \in {"like", "dislike"}
  /\ posts[blog_call.slug].status = "published"

Opposite(type) == IF type = "like" THEN "dislike" ELSE "like"

\* whether the requester has an interaction of this type on the post now
Has(type) == Interaction(blog_call.slug, blog_call.user, type) \in interactions

\* the post's counter of this type now, and when the request read the post
CounterNow(type) ==
  IF type = "like" THEN posts[blog_call.slug].likes_count
  ELSE posts[blog_call.slug].dislikes_count

CounterBefore(type) ==
  IF type = "like" THEN blog_call.likes_count ELSE blog_call.dislikes_count

\* C20: blog_interact by a logged-in user on a published post with action a
\* is a three-state toggle: with no interaction it creates a and adds 1 to
\* a's counter; with a it removes it and subtracts 1 from a's counter; with
\* the opposite it replaces it, subtracting 1 from the opposite counter and
\* adding 1 to a's.  In the first two cases the other counter is unchanged.
C20_ThreeStateToggle ==
  Toggled =>
    LET a == blog_call.action
        o == Opposite(blog_call.action)
    IN /\ blog_call.found = {} =>
            /\ Has(a) /\ ~Has(o)
            /\ CounterNow(a) = CounterBefore(a) + 1
            /\ CounterNow(o) = CounterBefore(o)
       /\ blog_call.found = {a} =>
            /\ ~Has(a) /\ ~Has(o)
            /\ CounterNow(a) = CounterBefore(a) - 1
            /\ CounterNow(o) = CounterBefore(o)
       /\ blog_call.found = {o} =>
            /\ Has(a) /\ ~Has(o)
            /\ CounterNow(o) = CounterBefore(o) - 1
            /\ CounterNow(a) = CounterBefore(a) + 1

\* a user who liked the post dislikes it while another user's like stays
C20_Witness ==
  /\ Toggled
  /\ blog_call.action = "dislike"
  /\ blog_call.found = {"like"}
  /\ Has("dislike") /\ ~Has("like")
  /\ blog_call.likes_count = 2
  /\ posts[blog_call.slug].likes_count = 1
  /\ posts[blog_call.slug].dislikes_count = 1

-----------------------------------------------------------------------------
(* blog/views.py: comment_create and comment_delete                        *)

MaxCommentRows == 2

\* a Comment row; parent is 0 for a comment that is not a reply
CommentRow(id, slug, author, parent) ==
  [id |-> id, post |-> slug, author |-> author, parent |-> parent]

\* the comment texts a form is sent with: blanks around two characters, and
\* a sentence
CommentContents ==
  {<<" ", "o", "k", " ">>, <<"N", "i", "c", "e", " ", "o", "n", "e">>}

\* CommentForm.is_valid: the field strips the text and requires it, and
\* clean_content wants 5 to 1000 characters
CommentFormIsValid(content) ==
  LET stripped == Strip(content)
  IN Len(stripped) >= 5 /\ Len(stripped) <= 1000

\* what a view answers and leaves in the database
ViewResult(rows, crows, seq, records, status) ==
  [posts |-> rows, comments |-> crows, seq |-> seq, interactions |-> records,
   status |-> status]

\* the ids of the comments that on_delete=CASCADE of Comment.parent removes
\* with the comments of ids: their replies, the replies to those, and so on
RECURSIVE Cascade(_, _)
Cascade(crows, ids) ==
  LET more == ids \cup {c.id : c \in {r \in crows : r.parent \in ids}}
  IN IF more = ids THEN ids ELSE Cascade(crows, more)

\* comment_create(request, slug) with its two decorators; parent_id 0 is a
\* form without parent_id
CommentCreate(rows, crows, seq, records, req) ==
  LET same == ViewResult(rows, crows, seq, records, 302)
  IN IF req.user = Anonymous THEN same
     ELSE IF req.method \notin {"GET", "POST"}
       THEN ViewResult(rows, crows, seq, records, 405)
     ELSE IF req.slug \notin DOMAIN rows \/ rows[req.slug].status # "published"
       THEN ViewResult(rows, crows, seq, records, 404)
     ELSE IF req.method = "POST" /\ CommentFormIsValid(req.content)
       THEN IF /\ req.parent_id # 0
               /\ ~\E c \in crows : c.id = req.parent_id /\ c.post = req.slug
              THEN ViewResult(rows, crows, seq, records, 404)
              ELSE ViewResult(
                     [rows EXCEPT ![req.slug].comments_count = @ + 1],
                     crows \cup {CommentRow(seq + 1, req.slug, req.user, req.parent_id)},
                     seq + 1, records, 302)
     ELSE same

\* a variant that lets every logged-in user delete every comment
CommentDeleteByAnyone(rows, crows, seq, records, req) ==
  IF req.user = Anonymous THEN ViewResult(rows, crows, seq, records, 302)
  ELSE IF req.method # "POST" THEN ViewResult(rows, crows, seq, records, 405)
  ELSE IF ~\E c \in crows : c.id = req.pk
    THEN ViewResult(rows, crows, seq, records, 404)
  ELSE LET deleted == CHOOSE c \in crows : c.id = req.pk
           gone == Cascade(crows, {deleted.id})
       IN ViewResult(
            [rows EXCEPT ![deleted.post].comments_count = AtLeastZero(@ - 1)],
            {c \in crows : c.id \notin gone}, seq, records, 302)

\* comment_delete(request, pk) with its two decorators: comment.delete()
\* takes the replies with it, and the counter of the post goes down by one
CommentDelete(rows, crows, seq, records, req) ==
  IF req.user = Anonymous THEN ViewResult(rows, crows, seq, records, 302)
  ELSE IF req.method # "POST" THEN ViewResult(rows, crows, seq, records, 405)
  ELSE IF ~\E c \in crows : c.id = req.pk
    THEN ViewResult(rows, crows, seq, records, 404)
  ELSE LET deleted == CHOOSE c \in crows : c.id = req.pk
           post == rows[deleted.post]
           gone == Cascade(crows, {deleted.id})
       IN IF req.user = deleted.author \/ req.user = post.author
            THEN ViewResult(
                   [rows EXCEPT ![deleted.post].comments_count =
                                   AtLeastZero(post.comments_count - 1)],
                   {c \in crows : c.id \notin gone}, seq, records, 302)
            ELSE ViewResult(rows, crows, seq, records, 302)

-----------------------------------------------------------------------------
(* blog/views.py: blog_detail, blog_edit, blog_delete, blog_publish and    *)
(* blog_draft                                                              *)

MaxViews == 1

\* the titles and contents an edit form is sent with: too short, and long
\* enough with blanks around
EditTitles == {<<"E", "d", "i", "t">>, <<" ", "F", "l", "a", "s", "k", " ">>}

EditContents ==
  {<<"N", "e", "w">>, <<" ", "N", "e", "w">> \o Filler14 \o Filler14}

\* BlogPostForm.is_valid for a form that sends the slug and the optional
\* fields as the page showed them: clean_title wants 5 characters and
\* clean_content 50, both after strip()
BlogPostFormIsValid(title, content) ==
  /\ Len(Strip(title)) >= 5 /\ Len(Strip(title)) <= 200
  /\ Len(Strip(content)) >= 50

\* blog.delete(): the row, and by on_delete=CASCADE its comments and
\* interactions
DeletePost(rows, crows, seq, records, slug, status) ==
  ViewResult([s \in DOMAIN rows \ {slug} |-> rows[s]],
             {c \in crows : c.post # slug}, seq,
             {i \in records : i.post # slug}, status)

\* a variant that shows every post to everybody
BlogDetailOfAnyPost(rows, crows, seq, records, req) ==
  IF req.slug \in DOMAIN rows
    THEN ViewResult([rows EXCEPT ![req.slug].views_count = @ + 1],
                    crows, seq, records, 200)
    ELSE ViewResult(rows, crows, seq, records, 404)

\* blog_detail(request, slug): the published post of that slug, or else the
\* requester's own post of that slug; the view counts itself
BlogDetail(rows, crows, seq, records, req) ==
  LET published == req.slug \in DOMAIN rows /\ rows[req.slug].status = "published"
      own == /\ req.user # Anonymous
             /\ req.slug \in DOMAIN rows
             /\ rows[req.slug].author = req.user
  IN IF published \/ own
       THEN ViewResult([rows EXCEPT ![req.slug].views_count = @ + 1],
                       crows, seq, records, 200)
       ELSE ViewResult(rows, crows, seq, records, 404)

\* blog_edit(request, slug) with its two decorators
BlogEdit(rows, crows, seq, records, req) ==
  IF req.user = Anonymous THEN ViewResult(rows, crows, seq, records, 302)
  ELSE IF req.method \notin {"GET", "POST"}
    THEN ViewResult(rows, crows, seq, records, 405)
  ELSE IF req.slug \notin DOMAIN rows THEN ViewResult(rows, crows, seq, records, 404)
  ELSE IF req.user # rows[req.slug].author
    THEN ViewResult(rows, crows, seq, records, 302)
  ELSE IF req.method = "POST" /\ BlogPostFormIsValid(req.title, req.content)
    THEN ViewResult([rows EXCEPT ![req.slug].title = Strip(req.title),
                                 ![req.slug].content = Strip(req.content)],
                    crows, seq, records, 302)
  ELSE ViewResult(rows, crows, seq, records, 200)

\* blog_delete(request, slug) with its two decorators
BlogDelete(rows, crows, seq, records, req) ==
  IF req.user = Anonymous THEN ViewResult(rows, crows, seq, records, 302)
  ELSE IF req.method \notin {"GET", "POST"}
    THEN ViewResult(rows, crows, seq, records, 405)
  ELSE IF req.slug \notin DOMAIN rows THEN ViewResult(rows, crows, seq, records, 404)
  ELSE IF req.user # rows[req.slug].author
    THEN ViewResult(rows, crows, seq, records, 302)
  ELSE IF req.method = "POST"
    THEN DeletePost(rows, crows, seq, records, req.slug, 302)
  ELSE ViewResult(rows, crows, seq, records, 200)

\* a variant that lets every logged-in user publish every draft
BlogPublishByAnyone(rows, crows, seq, records, req) ==
  IF req.user = Anonymous THEN ViewResult(rows, crows, seq, records, 302)
  ELSE IF req.slug \notin DOMAIN rows THEN ViewResult(rows, crows, seq, records, 404)
  ELSE IF rows[req.slug].status = "draft"
    THEN ViewResult([rows EXCEPT ![req.slug].status = "published"],
                    crows, seq, records, 302)
  ELSE ViewResult(rows, crows, seq, records, 302)

\* blog_publish(request, slug), which answers every method
BlogPublish(rows, crows, seq, records, req) ==
  IF req.user = Anonymous THEN ViewResult(rows, crows, seq, records, 302)
  ELSE IF req.slug \notin DOMAIN rows THEN ViewResult(rows, crows, seq, records, 404)
  ELSE IF req.user # rows[req.slug].author
    THEN ViewResult(rows, crows, seq, records, 302)
  ELSE IF rows[req.slug].status = "draft"
    THEN ViewResult([rows EXCEPT ![req.slug].status = "published"],
                    crows, seq, records, 302)
  ELSE ViewResult(rows, crows, seq, records, 302)

\* blog_draft(request, slug), which answers every method
BlogDraft(rows, crows, seq, records, req) ==
  IF req.user = Anonymous THEN ViewResult(rows, crows, seq, records, 302)
  ELSE IF req.slug \notin DOMAIN rows THEN ViewResult(rows, crows, seq, records, 404)
  ELSE IF req.user # rows[req.slug].author
    THEN ViewResult(rows, crows, seq, records, 302)
  ELSE IF rows[req.slug].status = "published"
    THEN ViewResult([rows EXCEPT ![req.slug].status = "draft"],
                    crows, seq, records, 302)
  ELSE ViewResult(rows, crows, seq, records, 302)

-----------------------------------------------------------------------------
(* The post and comment views as state machines                            *)

\* the requests sent to each view
ViewRequests(view) ==
  IF view = "comment_create"
    THEN [view : {view}, user : Users \cup {Anonymous}, slug : PostSlugs,
          method : {"GET", "POST"}, pk : {0}, parent_id : 0..MaxCommentRows,
          title : {<<>>}, content : CommentContents]
  ELSE IF view = "comment_delete"
    THEN [view : {view}, user : Users \cup {Anonymous}, slug : {""},
          method : {"GET", "POST"}, pk : 1..MaxCommentRows, parent_id : {0},
          title : {<<>>}, content : {<<>>}]
  ELSE IF view = "blog_edit"
    THEN [view : {view}, user : Users \cup {Anonymous}, slug : PostSlugs,
          method : {"GET", "POST"}, pk : {0}, parent_id : {0},
          title : EditTitles, content : EditContents]
  ELSE [view : {view}, user : Users \cup {Anonymous}, slug : PostSlugs,
        method : {"GET", "POST"}, pk : {0}, parent_id : {0},
        title : {<<>>}, content : {<<>>}]

\* the view of a request, from its first line to its last
ApplyView(rows, crows, seq, records, req) ==
  IF req.view = "comment_create" THEN CommentCreate(rows, crows, seq, records, req)
  ELSE IF req.view = "comment_delete" THEN CommentDelete(rows, crows, seq, records, req)
  ELSE IF req.view = "blog_detail" THEN BlogDetail(rows, crows, seq, records, req)
  ELSE IF req.view = "blog_edit" THEN BlogEdit(rows, crows, seq, records, req)
  ELSE IF req.view = "blog_delete" THEN BlogDelete(rows, crows, seq, records, req)
  ELSE IF req.view = "blog_publish" THEN BlogPublish(rows, crows, seq, records, req)
  ELSE BlogDraft(rows, crows, seq, records, req)

\* one request to a post or comment view; the ids of comments and the view
\* counters are kept within the bounds
HandleViewRequest(view) ==
  /\ pc = "idle"
  /\ \E req \in ViewRequests(view) :
       LET after == ApplyView(posts, blog_comments, comment_seq, interactions, req)
       IN /\ after.seq <= MaxCommentRows
          /\ \A s \in DOMAIN after.posts : after.posts[s].views_count <= MaxViews
          /\ posts' = after.posts
          /\ blog_comments' = after.comments
          /\ comment_seq' = after.seq
          /\ interactions' = after.interactions
          /\ view_call' = [view |-> view, user |-> req.user, slug |-> req.slug,
                           method |-> req.method, pk |-> req.pk,
                           status |-> after.status,
                           posts_before |-> posts, comments_before |-> blog_comments]
  /\ UNCHANGED <<pc, sentiment_vars, ai_vars, account_vars, blog_call, in_flight>>

comment_create == HandleViewRequest("comment_create")

comment_delete == HandleViewRequest("comment_delete")

blog_detail == HandleViewRequest("blog_detail")

blog_edit == HandleViewRequest("blog_edit")

blog_delete == HandleViewRequest("blog_delete")

blog_publish == HandleViewRequest("blog_publish")

blog_draft == HandleViewRequest("blog_draft")

NextComments == comment_create \/ comment_delete

\* the comment views, on the two posts of user 1
SpecComments == InitBlog /\ [][NextComments]_vars

NextPosts == blog_detail \/ blog_edit \/ blog_delete \/ blog_publish \/ blog_draft

\* the post views, on the two posts of user 1
SpecPosts == InitBlog /\ [][NextPosts]_vars

-----------------------------------------------------------------------------
(* Claims about the comment views                                          *)

\* the Comment rows of a post
CommentsOf(crows, slug) == {c \in crows : c.post = slug}

\* C21: after any sequence of comment_create and comment_delete requests on
\* a post that had no comment and comments_count 0, comments_count is the
\* number of Comment rows of the post, also after a comment with replies was
\* deleted.
C21_CountIsNumberOfRows ==
  \A slug \in DOMAIN posts :
     posts[slug].comments_count = Cardinality(CommentsOf(blog_comments, slug))

\* the last request was a comment_delete that reached the view and found
\* its comment
DeleteFound ==
  /\ view_call.view = "comment_delete"
  /\ view_call.user # Anonymous
  /\ view_call.method = "POST"
  /\ \E c \in view_call.comments_before : c.id = view_call.pk

\* the comment that request named
DeleteTarget == CHOOSE c \in view_call.comments_before : c.id = view_call.pk

\* whether the requester wrote the comment or the post it belongs to
MayDelete ==
  \/ view_call.user = DeleteTarget.author
  \/ view_call.user = view_call.posts_before[DeleteTarget.post].author

\* C22: comment_delete removes the comment only for its author or the author
\* of its post; for any other logged-in user and for an anonymous requester
\* the comments and the post's comments_count stay as they were.  The rows a
\* permitted request removes are the comment and the replies below it.
C22_OnlyAuthorsDelete ==
  view_call.view = "comment_delete" =>
    /\ blog_comments \subseteq view_call.comments_before
    /\ blog_comments # view_call.comments_before => DeleteFound /\ MayDelete
    /\ ~(DeleteFound /\ MayDelete) =>
          /\ blog_comments = view_call.comments_before
          /\ posts = view_call.posts_before
    /\ DeleteFound /\ MayDelete =>
          /\ DeleteTarget \notin blog_comments
          /\ \A c \in view_call.comments_before \ blog_comments :
                c.id \in Cascade(view_call.comments_before, {view_call.pk})

\* the author of the post removed another user's comment, and another user
\* was refused
C22_Witness ==
  /\ DeleteFound
  /\ ~MayDelete
  /\ view_call.status = 302
  /\ \E c \in blog_comments :
       /\ c.id = view_call.pk
       /\ c.author # view_call.user
  /\ comment_seq = MaxCommentRows
  /\ Cardinality(blog_comments) < comment_seq

-----------------------------------------------------------------------------
(* Claims about the post views                                             *)

\* the post the last request named, as the request found it
PostExisted == view_call.slug \in DOMAIN view_call.posts_before

PostBefore == view_call.posts_before[view_call.slug]

\* the requester is the author of that post
ByAuthor == view_call.user # Anonymous /\ view_call.user = PostBefore.author

\* C23: blog_detail shows a post that is not published only to its logged-in
\* author; an anonymous requester and another user get 404 and views_count
\* stays as it was; every view that succeeds adds exactly 1 to the post's
\* views_count and changes nothing else.
C23_DraftsOnlyForAuthor ==
  view_call.view = "blog_detail" /\ PostExisted =>
    /\ PostBefore.status # "published" /\ ~ByAuthor =>
          view_call.status = 404 /\ posts = view_call.posts_before
    /\ PostBefore.status = "published" \/ ByAuthor => view_call.status = 200
    /\ view_call.status = 200 =>
          posts = [view_call.posts_before EXCEPT
                     ![view_call.slug].views_count = PostBefore.views_count + 1]

\* the author looks at the post after a request moved it to draft
C23_Witness ==
  /\ view_call.view = "blog_detail"
  /\ view_call.slug = "published-post"
  /\ PostExisted
  /\ PostBefore.status = "draft"
  /\ ByAuthor
  /\ view_call.status = 200
  /\ PostBefore.views_count = 0
  /\ posts[view_call.slug].views_count = 1

\* the last request asked to change a post that existed
ChangeRequested ==
  /\ view_call.view \in {"blog_edit", "blog_delete", "blog_publish", "blog_draft"}
  /\ PostExisted

\* C26: a blog_edit, blog_delete, blog_publish or blog_draft request by
\* someone who is not the author of the post leaves the post, with its
\* title, content and status, as it was; blog_publish changes a status only
\* from draft to published and blog_draft only from published to draft.
C26_OnlyAuthorChanges ==
  ChangeRequested =>
    /\ ~ByAuthor => posts = view_call.posts_before
    /\ view_call.view \in {"blog_publish", "blog_draft"} =>
          /\ view_call.slug \in DOMAIN posts
          /\ posts = [view_call.posts_before EXCEPT
                        ![view_call.slug].status = posts[view_call.slug].status]
          /\ posts[view_call.slug].status # PostBefore.status =>
                IF view_call.view = "blog_publish"
                  THEN PostBefore.status = "draft"
                       /\ posts[view_call.slug].status = "published"
                  ELSE PostBefore.status = "published"
                       /\ posts[view_call.slug].status = "draft"

\* another user asks to delete a post that its author edited and then moved
\* to draft, and the post stays
C26_Witness ==
  /\ ChangeRequested
  /\ view_call.view = "blog_delete"
  /\ view_call.method = "POST"
  /\ view_call.user \in Users
  /\ ~ByAuthor
  /\ view_call.slug = "published-post"
  /\ view_call.slug \in DOMAIN posts
  /\ posts[view_call.slug].status = "draft"
  /\ posts[view_call.slug].title # OriginalTitle
  /\ "draft-post" \notin DOMAIN posts

-----------------------------------------------------------------------------
(* accounts: registration and direct user creation                         *)

Usernames == {"ann", "bob", "cy"}

Emails == {"ann@example.com", "bob@example.com"}

\* an auth User row
UserRow(username, email) == [username |-> username, email |-> email]

\* the registration forms and create_user calls that are sent; password_ok
\* says whether the two passwords agree and pass the validators
AccountRequests(operation) ==
  [operation : {operation},
   method : IF operation = "register" THEN {"GET", "POST"} ELSE {""},
   username : Usernames, email : Emails, password_ok : BOOLEAN]

\* a variant that accepts an email an existing user has
RegistrationErrorsWithoutEmail(rows, form) ==
  {field \in {"username", "password2"} :
     \/ field = "username" /\ \E u \in rows : u.username = form.username
     \/ field = "password2" /\ ~form.password_ok}

\* the fields UserRegistrationForm.is_valid() finds an error on: the
\* username of UserCreationForm must be new, clean_email wants an email no
\* user has, and the passwords must agree
RegistrationErrors(rows, form) ==
  {field \in {"username", "email", "password2"} :
     \/ field = "username" /\ \E u \in rows : u.username = form.username
     \/ field = "email" /\ \E u \in rows : u.email = form.email
     \/ field = "password2" /\ ~form.password_ok}

\* what an operation of the accounts app leaves in the database
AccountResult(rows, profs, errors, status) ==
  [users |-> rows, profiles |-> profs, errors |-> errors, status |-> status]

\* register(request): a valid form saves the user and then gets or creates
\* its profile
Register(rows, profs, req) ==
  IF req.method # "POST" THEN AccountResult(rows, profs, {}, 200)
  ELSE LET errors == RegistrationErrors(rows, req)
       IN IF errors = {}
            THEN AccountResult(rows \cup {UserRow(req.username, req.email)},
                               profs \cup {req.username}, {}, 302)
            ELSE AccountResult(rows, profs, errors, 200)

\* User.objects.create_user(username, email, password): the row is
\* inserted unless the username is taken; nothing listens to the insertion
CreateUser(rows, profs, req) ==
  IF \E u \in rows : u.username = req.username
    THEN AccountResult(rows, profs, {"IntegrityError"}, 0)
    ELSE AccountResult(rows \cup {UserRow(req.username, req.email)}, profs, {}, 0)

\* no post exists, and no user yet
InitAccounts ==
  /\ pc = "idle"
  /\ SentimentIdle
  /\ AIUnused
  /\ BlogUnused
  /\ AccountsUnused

\* one registration request or one create_user call
HandleAccountRequest(operation) ==
  /\ pc = "idle"
  /\ \E req \in AccountRequests(operation) :
       LET after == IF operation = "register" THEN Register(users, profiles, req)
                    ELSE CreateUser(users, profiles, req)
       IN /\ users' = after.users
          /\ profiles' = after.profiles
          /\ account_call' =
               [operation |-> operation, method |-> req.method,
                username |-> req.username, email |-> req.email,
                password_ok |-> req.password_ok, valid |-> after.errors = {},
                errors |-> after.errors, status |-> after.status,
                users_before |-> users, profiles_before |-> profiles]
  /\ UNCHANGED <<pc, sentiment_vars, ai_vars, blog_vars>>

register == HandleAccountRequest("register")

create_user == HandleAccountRequest("create_user")

NextAccounts == register \/ create_user

SpecAccounts == InitAccounts /\ [][NextAccounts]_vars

-----------------------------------------------------------------------------
(* Claims about the accounts                                               *)

\* C24: in every reachable state each User has a UserProfile, whether the
\* user was created by the registration form or by create_user.
C24_EveryUserHasProfile ==
  \A u \in users : u.username \in profiles

\* the last request was a registration form with the email of an existing
\* user
DuplicateEmailSent ==
  /\ account_call.operation = "register"
  /\ account_call.method = "POST"
  /\ \E u \in account_call.users_before : u.email = account_call.email

\* C25: a registration whose email belongs to an existing user is rejected:
\* the form is invalid with an error on the email field, and the users and
\* the profiles are the ones that existed before.
C25_DuplicateEmailRejected ==
  DuplicateEmailSent =>
    /\ ~account_call.valid
    /\ "email" \in account_call.errors
    /\ users = account_call.users_before
    /\ profiles = account_call.profiles_before

\* a form with a new username and good passwords is refused for its email
\* alone, which a registered user has
C25_Witness ==
  /\ DuplicateEmailSent
  /\ account_call.errors = {"email"}
  /\ account_call.status = 200
  /\ \E u \in users : u.email = account_call.email /\ u.username \in profiles
  /\ ~\E u \in users : u.username = account_call.username

-----------------------------------------------------------------------------
(* blog_interact, statement by statement                                   *)
(*                                                                         *)
(* Requests of different users run in different workers.  Each statement  *)
(* of the view that reaches the database is a step of its own: the view    *)
(* opens no transaction and takes no lock, and blog.save() writes every    *)
(* field of the row the request read.  in_flight holds, for each user who  *)
(* has sent a request, the local variables of that request; every user     *)
(* sends one.                                                              *)

\* the post the concurrent requests are about
SharedSlug == "published-post"

\* line 343: blog = get_object_or_404(BlogPost, slug=slug, status='published')
ReadPost(u, action) ==
  /\ u \notin DOMAIN in_flight
  /\ posts[SharedSlug].status = "published"
  /\ in_flight' = in_flight @@
       (u :> [stage |-> "read", action |-> action, blog |-> posts[SharedSlug],
              existing_like |-> FALSE, existing_dislike |-> FALSE])
  /\ UNCHANGED <<posts, interactions>>

\* lines 354-355: the two PostInteraction queries
FindInteractions(u) ==
  /\ u \in DOMAIN in_flight
  /\ in_flight[u].stage = "read"
  /\ in_flight' =
       [in_flight EXCEPT
          ![u].stage = "found",
          ![u].existing_like = Interaction(SharedSlug, u, "like") \in interactions,
          ![u].existing_dislike = Interaction(SharedSlug, u, "dislike") \in interactions]
  /\ UNCHANGED <<posts, interactions>>

\* lines 357-384: the rows are deleted and created in the database, the
\* counters change in the blog object of the request only
UpdateInMemory(u) ==
  /\ u \in DOMAIN in_flight
  /\ in_flight[u].stage = "found"
  /\ LET local == in_flight[u]
         req == [user |-> u, slug |-> SharedSlug, method |-> "POST",
                 action |-> local.action]
         found == {Interaction(SharedSlug, u, type) :
                     type \in {t \in {"like", "dislike"} :
                                 \/ t = "like" /\ local.existing_like
                                 \/ t = "dislike" /\ local.existing_dislike}}
         after == BlogInteract((SharedSlug :> local.blog), found, req)
     IN /\ interactions' = (interactions \ found) \cup after.interactions
        /\ in_flight' = [in_flight EXCEPT ![u].stage = "updated",
                                          ![u].blog = after.posts[SharedSlug]]
  /\ UNCHANGED posts

\* line 386: blog.save()
SavePost(u) ==
  /\ u \in DOMAIN in_flight
  /\ in_flight[u].stage = "updated"
  /\ posts' = [posts EXCEPT ![SharedSlug] = in_flight[u].blog]
  /\ in_flight' = [in_flight EXCEPT ![u].stage = "done"]
  /\ UNCHANGED interactions

\* one statement of one request
InteractStep(statement) ==
  /\ pc = "idle"
  /\ \E u \in Users :
       \/ statement = "get_object_or_404"
          /\ \E action \in {"like", "dislike"} : ReadPost(u, action)
       \/ statement = "filter" /\ FindInteractions(u)
       \/ statement = "update" /\ UpdateInMemory(u)
       \/ statement = "save" /\ SavePost(u)
  /\ UNCHANGED <<pc, sentiment_vars, ai_vars, account_vars>>
  /\ UNCHANGED <<blog_call, blog_comments, comment_seq, view_call>>

interact_read == InteractStep("get_object_or_404")

interact_find == InteractStep("filter")

interact_update == InteractStep("update")

interact_save == InteractStep("save")

NextInterleaved == interact_read \/ interact_find \/ interact_update \/ interact_save

\* the interactions of users who each liked, disliked or ignored the post
InteractionsOf(choice) ==
  {Interaction(SharedSlug, u, choice[u]) : u \in {v \in Users : choice[v] # ""}}

\* the posts of InitBlog after some users liked or disliked the published
\* one, one request after the other
InitInterleaved ==
  /\ pc = "idle"
  /\ SentimentIdle
  /\ AIUnused
  /\ AccountsUnused
  /\ ViewsUnused
  /\ blog_call = NoBlogCall
  /\ \E choice \in [Users -> {"", "like", "dislike"}] :
       /\ interactions = InteractionsOf(choice)
       /\ posts =
            [slug \in PostSlugs |->
               IF slug = SharedSlug
                 THEN [NewPost(1, "published") EXCEPT
                         !.likes_count =
                            Cardinality({u \in Users : choice[u] = "like"}),
                         !.dislikes_count =
                            Cardinality({u \in Users : choice[u] = "dislike"})]
                 ELSE NewPost(1, "draft")]

\* the requests of the users interleaved statement by statement
SpecInterleaved == InitInterleaved /\ [][NextInterleaved]_vars

\* the number of interactions of a type a post has
Records(slug, type) ==
  Cardinality({i \in interactions : i.post = slug /\ i.interaction_type = type})

\* C27: under every interleaving of blog_interact requests by different
\* users on the same post, once all requests have completed likes_count is
\* the number of 'like' records of the post and dislikes_count the number of
\* 'dislike' records: no update is lost.
C27_NoLostUpdate ==
  (\A u \in DOMAIN in_flight : in_flight[u].stage = "done") =>
    /\ posts[SharedSlug].likes_count = Records(SharedSlug, "like")
    /\ posts[SharedSlug].dislikes_count = Records(SharedSlug, "dislike")

-----------------------------------------------------------------------------
(* Claims about the interactions after completed requests                  *)

\* the interactions a user has with a post
InteractionsWith(slug, user) ==
  {i \in interactions : i.post = slug /\ i.user = user}

\* C28: after any sequence of completed blog_interact requests a user has at
\* most one interaction with a post, a like or a dislike and never both, and
\* likes_count and dislikes_count are never negative.
C28_OneInteractionPerUser ==
  /\ \A slug \in DOMAIN posts : \A user \in Users :
        Cardinality(InteractionsWith(slug, user)) <= 1
  /\ \A slug \in DOMAIN posts :
        posts[slug].likes_count >= 0 /\ posts[slug].dislikes_count >= 0

\* a user who disliked the post likes it, and the like is the only
\* interaction left
C28_Witness ==
  /\ Toggled
  /\ blog_call.action = "like"
  /\ blog_call.found = {"dislike"}
  /\ InteractionsWith(blog_call.slug, blog_call.user) =
        {Interaction(blog_call.slug, blog_call.user, "like")}
  /\ interactions = InteractionsWith(blog_call.slug, blog_call.user)
  /\ blog_call.dislikes_count = 1
  /\ posts[blog_call.slug].likes_count = 1
  /\ posts[blog_call.slug].dislikes_count = 0

-----------------------------------------------------------------------------
(* Further claims about the sentiment service                              *)

\* the tier classify_comment_importance gives the comment under another
\* polarity, and under another number of words
TierUnderPolarity(b) == ClassifyCommentImportance(comment, b).importance

TierUnderWordCount(n) ==
  ImportanceTier(EntriesFound(high_importance_keywords, comment),
                 EntriesFound(medium_importance_keywords, comment),
                 importance_result.has_questions,
                 HasConstructionWords(Lower(comment)),
                 blob.polarity < NegativeCut, n, importance_result.score).importance

\* C29: every constructive word is also a HIGH keyword, so a comment with a
\* constructive word has high_count >= 1; the tier is HIGH if and only if
\* high_count >= 1, and neither the polarity nor the number of words changes
\* the tier of a comment.
C29_HighIffHighKeyword ==
  /\ \A i \in 1..Len(construction_words) :
        \E j \in 1..Len(high_importance_keywords) :
           high_importance_keywords[j] = construction_words[i]
  /\ Classified =>
        LET high_count == EntriesFound(high_importance_keywords, comment)
        IN /\ HasConstructionWords(Lower(comment)) => high_count >= 1
           /\ importance_result.importance = "HIGH" <=> high_count >= 1
           /\ \A b \in BlobOutcomes :
                 ~b.fails => TierUnderPolarity(b) = importance_result.importance
           /\ \A n \in {0, 1, 14, 15, 16} :
                 TierUnderWordCount(n) = importance_result.importance

\* a negative comment of fifteen words with a constructive word is HIGH, and
\* it has a HIGH keyword
C29_Witness ==
  /\ Classified
  /\ HasConstructionWords(Lower(comment))
  /\ blob.polarity < NegativeCut
  /\ importance_result.word_count >= 15
  /\ importance_result.importance = "HIGH"
  /\ EntriesFound(high_importance_keywords, comment) = 1
  /\ importance_result.score = 7

\* C30 as stated: the label agrees with the thresholds applied to the
\* polarity that analyze_sentiment returns, the one rounded to 3 decimals:
\* positive if and only if the returned polarity is above 0.1, and negative
\* if and only if it is below -0.1.
C30_LabelAgreesWithReturnedPolarity ==
  Analyzed /\ ~sentiment_result.raised =>
    /\ sentiment_result.sentiment = "positive" <=> sentiment_result.polarity > 1000
    /\ sentiment_result.sentiment = "negative" <=> sentiment_result.polarity < -1000

\* C30 as amended: the label agrees with the thresholds applied to the
\* returned polarity unless that polarity is exactly 0.1 or -0.1; a returned
\* polarity of 0.1 is positive exactly when the polarity before rounding was
\* above 0.1, and one of -0.1 negative exactly when it was below -0.1.
C30_LabelAgreesUpToRounding ==
  Analyzed /\ ~sentiment_result.raised =>
    /\ sentiment_result.polarity > 1000 => sentiment_result.sentiment = "positive"
    /\ sentiment_result.polarity < -1000 => sentiment_result.sentiment = "negative"
    /\ sentiment_result.sentiment = "positive" => sentiment_result.polarity >= 1000
    /\ sentiment_result.sentiment = "negative" => sentiment_result.polarity <= -1000
    /\ sentiment_result.polarity = 1000 =>
          (sentiment_result.sentiment = "positive" <=> blob.polarity > 1000)
    /\ sentiment_result.polarity = -1000 =>
          (sentiment_result.sentiment = "negative" <=> blob.polarity < -1000)

\* a polarity of 0.1004 is labelled positive and returned as 0.1
C30_Witness ==
  /\ Analyzed
  /\ ~blob.fails
  /\ blob.polarity = 1004
  /\ sentiment_result.sentiment = "positive"
  /\ sentiment_result.polarity = 1000

=============================================================================
